---- MODULE Spec2Model ----
(***************************************************************************)
(* Verification model of the session embedding pipeline (embedder.ts) of   *)
(* claude-session-explorer: the JSONL parser, the turn chunker, the        *)
(* service adapters, the session_chunks store and the batch run main().    *)
(*                                                                         *)
(* Text is modelled as a sequence of one-character strings, so that        *)
(* slice, trim, join, startsWith, endsWith and replace are computed as the *)
(* code computes them.  Enumerations (roles, event types, phases) and      *)
(* timestamps, which the code only copies and tests for emptiness, are     *)
(* plain strings.                                                          *)
(***************************************************************************)
EXTENDS Integers, Sequences, FiniteSets, TLC

(***************************************************************************)
(* Text helpers (JavaScript string methods used by the pipeline)           *)
(***************************************************************************)

\* String.prototype.slice(0, n)
Slice(s, n) == SubSeq(s, 1, IF Len(s) < n THEN Len(s) ELSE n)

\* String.prototype.startsWith
StartsWith(s, p) == Len(s) >= Len(p) /\ SubSeq(s, 1, Len(p)) = p

\* String.prototype.endsWith
EndsWith(s, p) == Len(s) >= Len(p) /\ SubSeq(s, Len(s) - Len(p) + 1, Len(s)) = p

\* String.prototype.replace(pat, "") with a string pattern: removes the
\* first occurrence of pat, or returns s unchanged when there is none.
ReplaceFirst(s, pat) ==
    LET hits == {i \in 1..(Len(s) - Len(pat) + 1) : SubSeq(s, i, i + Len(pat) - 1) = pat}
    IN  IF hits = {} THEN s
        ELSE LET i == CHOOSE j \in hits : \A k \in hits : j <= k
             IN  SubSeq(s, 1, i - 1) \o SubSeq(s, i + Len(pat), Len(s))

IsSpace(c) == c \in {" ", "\n"}

RECURSIVE TrimLeft(_)
TrimLeft(s) == IF s # <<>> /\ IsSpace(Head(s)) THEN TrimLeft(Tail(s)) ELSE s

RECURSIVE TrimRight(_)
TrimRight(s) ==
    IF s # <<>> /\ IsSpace(s[Len(s)]) THEN TrimRight(SubSeq(s, 1, Len(s) - 1)) ELSE s

\* String.prototype.trim
Trim(s) == TrimRight(TrimLeft(s))

\* Array.prototype.join(sep) on an array of strings
RECURSIVE Join(_, _)
Join(parts, sep) ==
    IF parts = <<>> THEN <<>>
    ELSE IF Len(parts) = 1 THEN parts[1]
    ELSE parts[1] \o sep \o Join(Tail(parts), sep)

\* Array.prototype.flat() on an array of arrays
RECURSIVE Flat(_)
Flat(groups) == IF groups = <<>> THEN <<>> ELSE Head(groups) \o Flat(Tail(groups))

\* [...new Set(xs)]: duplicates dropped, first-seen order kept
RECURSIVE Dedupe(_)
Dedupe(xs) ==
    IF xs = <<>> THEN <<>>
    ELSE LET init == Dedupe(SubSeq(xs, 1, Len(xs) - 1))
             last == xs[Len(xs)]
         IN  IF \E i \in 1..Len(init) : init[i] = last THEN init ELSE Append(init, last)

(***************************************************************************)
(* Configuration constants of embedder.ts                                  *)
(***************************************************************************)
CHUNK_SIZE == 5
MAX_CHUNK_TEXT == 3000
MSG_TEXT_CAP == 600
FALLBACK_SUMMARY_CAP == 200
RAW_EXCERPT_CAP == 2000
INDEX_MIN_ROWS == 100
DEFAULT_LIMIT == 10

DotJson == <<".", "j", "s", "o", "n">>
AgentPrefix == <<"a", "g", "e", "n", "t", "-">>
UserPrefix == <<"U", "s", "e", "r", ":">>
AssistantPrefix == <<"A", "s", "s", "i", "s", "t", "a", "n", "t", ":">>
ToolsOpen == <<" ", "[", "T", "o", "o", "l", "s", ":", " ">>
ToolsClose == <<"]">>
CommaSpace == <<",", " ">>
Space == <<" ">>
Newline == <<"\n">>

(***************************************************************************)
(* JSONL parser (embedder.ts parseSessionJsonl)                            *)
(*                                                                         *)
(* A log is a sequence of lines.  A line is a record                       *)
(*   kind    "blank" | "garbage" (JSON.parse throws) | "null" (the JSON    *)
(*           text null) | "json"                                           *)
(*   type    entry.type                                                    *)
(*   role    entry.message.role, "" when message or role is absent         *)
(*   timestamp  entry.timestamp, "" when absent                            *)
(*   isArray whether message.content is an array                           *)
(*   str     message.content when it is a string (<<>> when absent)        *)
(*   items   message.content when it is an array of items; an item is      *)
(*           [type, text, name]                                            *)
(***************************************************************************)
TextItem(t) == [type |-> "text", text |-> t, name |-> <<>>]
ToolUseItem(n) == [type |-> "tool_use", text |-> <<>>, name |-> n]
ToolResultItem == [type |-> "tool_result", text |-> <<>>, name |-> <<>>]

ItemIsText(item) == item.type = "text"
ItemIsToolUse(item) == item.type = "tool_use"

\* user branch: text items joined by one space, or the string itself
UserText(line) ==
    IF line.isArray
    THEN Join([i \in 1..Len(SelectSeq(line.items, ItemIsText)) |->
                 SelectSeq(line.items, ItemIsText)[i].text], Space)
    ELSE line.str

\* assistant branch: every text item followed by one space (trimmed later)
RECURSIVE AssistantText(_)
AssistantText(items) ==
    IF items = <<>> THEN <<>>
    ELSE (IF ItemIsText(Head(items)) THEN Head(items).text \o Space ELSE <<>>)
         \o AssistantText(Tail(items))

AssistantToolNames(items) ==
    [i \in 1..Len(SelectSeq(items, ItemIsToolUse)) |->
        SelectSeq(items, ItemIsToolUse)[i].name]

\* The messages one line contributes: none when the line is skipped.
ParseLine(line) ==
    IF line.kind # "json" THEN <<>>
    ELSE IF line.type # "user" /\ line.type # "assistant" THEN <<>>
    ELSE IF line.role = "" THEN <<>>
    ELSE LET text == IF line.role = "user" THEN UserText(line)
                     ELSE IF line.role = "assistant" /\ line.isArray
                          THEN AssistantText(line.items)
                     ELSE <<>>
             toolNames == IF line.role = "assistant" /\ line.isArray
                          THEN AssistantToolNames(line.items)
                          ELSE <<>>
         IN  << [role |-> line.role, content |-> Trim(text),
                 timestamp |-> line.timestamp, toolNames |-> toolNames] >>

RECURSIVE ParseSessionJsonl(_)
ParseSessionJsonl(lines) ==
    IF lines = <<>> THEN <<>>
    ELSE ParseLine(Head(lines)) \o ParseSessionJsonl(Tail(lines))

\* JSON.parse yields null for the line "null"; entry.type then throws a
\* TypeError outside the try that guards JSON.parse.
LineThrows(line) == line.kind = "null"

\* Whether parseSessionJsonl (either version) throws on the log.
ParseThrows(lines) == \E i \in 1..Len(lines) : LineThrows(lines[i])

\* parseSessionJsonl of embedder.ts as its caller sees it
ParseResult(lines) ==
    IF ParseThrows(lines) THEN [threw |-> TRUE, messages |-> <<>>]
    ELSE [threw |-> FALSE, messages |-> ParseSessionJsonl(lines)]

(***************************************************************************)
(* JSONL parser with tool correlation (tools.ts parseSessionJsonl)         *)
(*                                                                         *)
(* Lines are as above with two more fields, usage and model, and items     *)
(* are [type, text, name, id, tool_use_id, content, is_error].  The parse  *)
(* state is [messages, pending]; pending maps an identifier to the place   *)
(* [m, k] of the tool call object it refers to: toolCalls[k] of            *)
(* messages[m].                                                            *)
(***************************************************************************)
TOOL_RESULT_CAP == 500

NoUsage == "{}"

RichItem(type, text, name, id, toolUseId, content, isError) ==
    [type |-> type, text |-> text, name |-> name, id |-> id,
     tool_use_id |-> toolUseId, content |-> content, is_error |-> isError]

RichText(t) == RichItem("text", t, <<>>, "", "", <<>>, FALSE)
RichToolUse(id, n) == RichItem("tool_use", <<>>, n, id, "", <<>>, FALSE)
RichToolResult(id, c, e) == RichItem("tool_result", <<>>, <<>>, "", id, c, e)

NoPending == [x \in {} |-> [m |-> 0, k |-> 0]]

\* Mutant: the stored result is the whole content.
M_ToolsResolveUncut(st, item) ==
    IF item.tool_use_id \in DOMAIN st.pending
    THEN LET ref == st.pending[item.tool_use_id] IN
         [messages |-> [st.messages EXCEPT ![ref.m].toolCalls[ref.k] =
                           [@ EXCEPT !.result = item.content,
                                     !.isError = item.is_error]],
          pending  |-> [x \in DOMAIN st.pending \ {item.tool_use_id} |-> st.pending[x]]]
    ELSE st

\* Mutant: a resolved identifier stays pending.
M_ToolsResolveKeepsPending(st, item) ==
    IF item.tool_use_id \in DOMAIN st.pending
    THEN LET ref == st.pending[item.tool_use_id] IN
         [messages |-> [st.messages EXCEPT ![ref.m].toolCalls[ref.k] =
                           [@ EXCEPT !.result = Slice(item.content, TOOL_RESULT_CAP),
                                     !.isError = item.is_error]],
          pending  |-> st.pending]
    ELSE st

\* One tool_result item: when its identifier is pending, the referenced
\* tool call takes the cut result and the error flag and the identifier is
\* removed from the map.
ToolsResolve(st, item) ==
    IF item.tool_use_id \in DOMAIN st.pending
    THEN LET ref == st.pending[item.tool_use_id] IN
         [messages |-> [st.messages EXCEPT ![ref.m].toolCalls[ref.k] =
                           [@ EXCEPT !.result = Slice(item.content, TOOL_RESULT_CAP),
                                     !.isError = item.is_error]],
          pending  |-> [x \in DOMAIN st.pending \ {item.tool_use_id} |-> st.pending[x]]]
    ELSE st

\* The tool_result loop over the items of a user event.
RECURSIVE ToolsResolveAll(_, _)
ToolsResolveAll(st, items) ==
    IF items = <<>> THEN st
    ELSE ToolsResolveAll(IF Head(items).type = "tool_result"
                         THEN ToolsResolve(st, Head(items))
                         ELSE st,
                         Tail(items))

ToolsUserText(line) ==
    IF line.isArray
    THEN Join([i \in 1..Len(SelectSeq(line.items, ItemIsText)) |->
                 SelectSeq(line.items, ItemIsText)[i].text], Space)
    ELSE line.str

ToolsUserLine(st, line) ==
    LET resolved == IF line.isArray THEN ToolsResolveAll(st, line.items) ELSE st
    IN  [messages |-> Append(resolved.messages,
                             [role |-> "user", content |-> ToolsUserText(line),
                              timestamp |-> line.timestamp, toolCalls |-> <<>>,
                              tokens |-> NoUsage, model |-> ""]),
         pending  |-> resolved.pending]

\* The item loop of an assistant event: acc is [textParts, toolCalls,
\* pending]; m is the index the message will have.
RECURSIVE ToolsCollect(_, _, _)
ToolsCollect(items, acc, m) ==
    IF items = <<>> THEN acc
    ELSE LET item == Head(items) IN
         ToolsCollect(
            Tail(items),
            IF item.type = "text"
            THEN [acc EXCEPT !.textParts = Append(@, item.text)]
            ELSE IF item.type = "tool_use"
            THEN [acc EXCEPT
                    !.toolCalls = Append(@, [name |-> item.name, input |-> "{}",
                                             result |-> <<>>, isError |-> FALSE]),
                    !.pending = [x \in DOMAIN @ \cup {item.id} |->
                                    IF x = item.id
                                    THEN [m |-> m, k |-> Len(acc.toolCalls) + 1]
                                    ELSE @[x]]]
            ELSE acc,
            m)

ToolsAssistantLine(st, line) ==
    LET acc == ToolsCollect(IF line.isArray THEN line.items ELSE <<>>,
                            [textParts |-> <<>>, toolCalls |-> <<>>,
                             pending |-> st.pending],
                            Len(st.messages) + 1)
    IN  [messages |-> Append(st.messages,
                             [role |-> "assistant",
                              content |-> Join(acc.textParts, Space),
                              timestamp |-> line.timestamp,
                              toolCalls |-> acc.toolCalls,
                              tokens |-> line.usage, model |-> line.model]),
         pending  |-> acc.pending]

\* One line of the log.
ToolsParseLine(st, line) ==
    IF line.kind # "json" THEN st
    ELSE IF line.type # "user" /\ line.type # "assistant" THEN st
    ELSE IF line.role = "" THEN st
    ELSE IF line.role = "user" THEN ToolsUserLine(st, line)
    ELSE IF line.role = "assistant" THEN ToolsAssistantLine(st, line)
    ELSE st

RECURSIVE ToolsParseFrom(_, _)
ToolsParseFrom(st, lines) ==
    IF lines = <<>> THEN st
    ELSE ToolsParseFrom(ToolsParseLine(st, Head(lines)), Tail(lines))

\* parseSessionJsonl of tools.ts
ToolsParseSessionJsonl(lines) ==
    ToolsParseFrom([messages |-> <<>>, pending |-> NoPending], lines).messages

\* parseSessionJsonl of tools.ts as its caller sees it
ToolsParseResult(lines) ==
    IF ParseThrows(lines) THEN [threw |-> TRUE, messages |-> <<>>]
    ELSE [threw |-> FALSE, messages |-> ToolsParseSessionJsonl(lines)]

(***************************************************************************)
(* Chunker (embedder.ts chunkSession, formatChunkText)                     *)
(***************************************************************************)
FormatMessage(m) ==
    (IF m.role = "user" THEN UserPrefix ELSE AssistantPrefix)
    \o Space \o Slice(m.content, MSG_TEXT_CAP)
    \o (IF Len(m.toolNames) > 0
        THEN ToolsOpen \o Join(m.toolNames, CommaSpace) \o ToolsClose
        ELSE <<>>)

\* Mutant: the joined text is not cut to MAX_CHUNK_TEXT.
M_FormatChunkTextUncut(messages) ==
    Join([i \in 1..Len(messages) |-> FormatMessage(messages[i])], Newline)

FormatChunkText(messages) ==
    Slice(Join([i \in 1..Len(messages) |-> FormatMessage(messages[i])], Newline),
          MAX_CHUNK_TEXT)

\* Mutant: the user message that closes a turn is not put into the next one.
RECURSIVE M_GroupTurnsLosesOpener(_, _, _)
M_GroupTurnsLosesOpener(messages, turns, currentTurn) ==
    IF messages = <<>>
    THEN IF Len(currentTurn) > 0 THEN Append(turns, currentTurn) ELSE turns
    ELSE LET msg == Head(messages)
         IN  IF msg.role = "user" /\ Len(currentTurn) > 0
             THEN M_GroupTurnsLosesOpener(Tail(messages), Append(turns, currentTurn), <<>>)
             ELSE M_GroupTurnsLosesOpener(Tail(messages), turns, Append(currentTurn, msg))

\* Mutant: an assistant message closes the current turn.
RECURSIVE M_GroupTurnsSplitsOnAssistant(_, _, _)
M_GroupTurnsSplitsOnAssistant(messages, turns, currentTurn) ==
    IF messages = <<>>
    THEN IF Len(currentTurn) > 0 THEN Append(turns, currentTurn) ELSE turns
    ELSE LET msg == Head(messages)
         IN  IF msg.role = "assistant" /\ Len(currentTurn) > 0
             THEN M_GroupTurnsSplitsOnAssistant(Tail(messages),
                                                Append(turns, currentTurn), <<msg>>)
             ELSE M_GroupTurnsSplitsOnAssistant(Tail(messages), turns,
                                                Append(currentTurn, msg))

\* The turn-grouping loop: a user message closes a non-empty current turn.
RECURSIVE GroupTurns(_, _, _)
GroupTurns(messages, turns, currentTurn) ==
    IF messages = <<>>
    THEN IF Len(currentTurn) > 0 THEN Append(turns, currentTurn) ELSE turns
    ELSE LET msg == Head(messages)
         IN  IF msg.role = "user" /\ Len(currentTurn) > 0
             THEN GroupTurns(Tail(messages), Append(turns, currentTurn), <<msg>>)
             ELSE GroupTurns(Tail(messages), turns, Append(currentTurn, msg))

Turns(messages) == GroupTurns(messages, <<>>, <<>>)

\* Mutant: every chunk gets the chunkIndex 0 of the single-chunk branch.
M_MakeChunkIndexZero(index, allMessages) ==
    [chunkIndex |-> 0,
     messages   |-> allMessages,
     text       |-> FormatChunkText(allMessages),
     startTime  |-> IF allMessages = <<>> THEN "" ELSE allMessages[1].timestamp,
     endTime    |-> IF allMessages = <<>> THEN ""
                    ELSE allMessages[Len(allMessages)].timestamp,
     toolsUsed  |-> Dedupe(Flat([i \in 1..Len(allMessages) |-> allMessages[i].toolNames]))]

MakeChunk(index, allMessages) ==
    [chunkIndex |-> index,
     messages   |-> allMessages,
     text       |-> FormatChunkText(allMessages),
     startTime  |-> IF allMessages = <<>> THEN "" ELSE allMessages[1].timestamp,
     endTime    |-> IF allMessages = <<>> THEN ""
                    ELSE allMessages[Len(allMessages)].timestamp,
     toolsUsed  |-> Dedupe(Flat([i \in 1..Len(allMessages) |-> allMessages[i].toolNames]))]

\* The windowing loop: for (i = 0; i < turns.length; i += CHUNK_SIZE)
RECURSIVE SplitChunks(_, _, _)
SplitChunks(turns, i, chunks) ==
    IF i >= Len(turns) THEN chunks
    ELSE LET hi == IF i + CHUNK_SIZE > Len(turns) THEN Len(turns) ELSE i + CHUNK_SIZE
             group == SubSeq(turns, i + 1, hi)
         IN  SplitChunks(turns, i + CHUNK_SIZE,
                         Append(chunks, MakeChunk(Len(chunks), Flat(group))))

\* Mutant: every session is taken as a short one.
M_ChunkSessionAlwaysSingle(messages) == << MakeChunk(0, Flat(Turns(messages))) >>

ChunkSession(messages) ==
    LET turns == Turns(messages)
    IN  IF Len(turns) <= CHUNK_SIZE
        THEN << MakeChunk(0, Flat(turns)) >>
        ELSE SplitChunks(turns, 0, <<>>)

(***************************************************************************)
(* Service adapters (embedder.ts summarizeChunk, embedText)                *)
(***************************************************************************)
\* What the summarization service answers when it answers.
ServiceSummary == <<" ", "d", "i", "g", "e", "s", "t", " ">>

\* Mutant: the fallback is the whole input text.
M_SummarizeChunkFallbackUncut(text, serviceOk) ==
    IF serviceOk THEN Trim(ServiceSummary) ELSE text

\* summarizeChunk: the trimmed answer, or on any exception the first 200
\* characters of the input.
SummarizeChunk(text, serviceOk) ==
    IF serviceOk THEN Trim(ServiceSummary) ELSE Slice(text, FALLBACK_SUMMARY_CAP)

\* The vector the embedding service returns when it returns one.
ServiceEmbedding == <<1, 0>>

\* embedText: the response is "ok" (status 2xx with an embedding field),
\* "status" (non-2xx) or "nofield" (2xx without embedding); only "ok" returns.
EmbedResponses == {"ok", "status", "nofield"}

\* Mutant: a response without the embedding field is returned as it is.
M_EmbedTextThrowsOnStatusOnly(response) == response = "status"

EmbedTextThrows(response) == response # "ok"

(***************************************************************************)
(* Store (embedder.ts ensureTable, getEmbeddedSessionIds, insertChunk)     *)
(***************************************************************************)
Null == "NULL"
\* a vector column or field holding nothing
NullVector == <<>>

\* data.embedding of a response: the vector, or nothing
EmbedText(response) == IF response = "ok" THEN ServiceEmbedding ELSE NullVector

\* x || null for a timestamp string
OrNull(x) == IF x = "" THEN Null ELSE x

\* The row insertChunk writes.
ChunkRow(sessionId, chunk, summary, embedding, project, tokenCount) ==
    [session_id     |-> sessionId,
     chunk_index    |-> chunk.chunkIndex,
     summary        |-> summary,
     raw_excerpt    |-> Slice(chunk.text, RAW_EXCERPT_CAP),
     embedding_vec  |-> embedding,
     start_time     |-> OrNull(chunk.startTime),
     end_time       |-> OrNull(chunk.endTime),
     tools_used     |-> chunk.toolsUsed,
     project        |-> project,
     classification |-> Null,
     token_count    |-> tokenCount]

\* Mutant: a session counts as indexed from its second row on.
M_GetEmbeddedSessionIdsNeedsTwoRows(rows) ==
    {rows[i].session_id : i \in {j \in 1..Len(rows) :
        \E k \in 1..Len(rows) : k # j /\ rows[k].session_id = rows[j].session_id}}

\* SELECT DISTINCT session_id FROM session_chunks
GetEmbeddedSessionIds(rows) == {rows[i].session_id : i \in 1..Len(rows)}

\* Mutant: the already-indexed set is never loaded.
M_EmbeddedIdsNeverLoaded(forceFlag, rows) == {}

\* Mutant: --force does not clear the already-indexed set.
M_EmbeddedIdsIgnoreForce(forceFlag, rows) == GetEmbeddedSessionIds(rows)

\* force ? new Set() : await getEmbeddedSessionIds(pool)
EmbeddedIdsFor(forceFlag, rows) ==
    IF forceFlag THEN {} ELSE GetEmbeddedSessionIds(rows)

(***************************************************************************)
(* Command line (embedder.ts "Parse args")                                 *)
(*                                                                         *)
(* limitArg is [given |-> FALSE, ...] when --limit is not on the command  *)
(* line, otherwise the result of parseInt on the next argument: nan, or    *)
(* the integer n.  maxSessions is [inf |-> TRUE, ...] for Infinity and     *)
(* [inf |-> FALSE, n |-> N] for a number.                                  *)
(***************************************************************************)
NoLimit == [given |-> FALSE, nan |-> FALSE, n |-> 0]
LimitNaN == [given |-> TRUE, nan |-> TRUE, n |-> 0]
Limit(k) == [given |-> TRUE, nan |-> FALSE, n |-> k]

\* limitArg >= 0 ? parseInt(args[limitArg + 1]) || 10 : Infinity
MaxSessionsOf(limitArg) ==
    IF ~limitArg.given THEN [inf |-> TRUE, n |-> 0]
    ELSE IF limitArg.nan \/ limitArg.n = 0 THEN [inf |-> FALSE, n |-> DEFAULT_LIMIT]
    ELSE [inf |-> FALSE, n |-> limitArg.n]

\* Mutant: processed > maxSessions.
M_CapReachedStrict(processedCount, cap) == ~cap.inf /\ processedCount > cap.n

\* processed >= maxSessions
CapReached(processedCount, cap) == ~cap.inf /\ processedCount >= cap.n

\* Mutant: equality with the prefix instead of startsWith.
M_IsAgentSessionExact(sessionId) == sessionId = AgentPrefix

\* sessionId.startsWith("agent-")
IsAgentSession(sessionId) == StartsWith(sessionId, AgentPrefix)

\* file.replace(".json", "")
SessionIdOf(fileName) == ReplaceFirst(fileName, DotJson)

\* metaFiles.filter((f) => f.endsWith(".json"))
JsonFilesOf(listing) == SelectSeq(listing, LAMBDA f : EndsWith(f.name, DotJson))

(***************************************************************************)
(* Files the run reads.  A session-meta file is                            *)
(*   name      the file name                                               *)
(*   metaKind  "object" (JSON object), "null" (the JSON text null),        *)
(*             "badjson" (JSON.parse throws) or "unreadable" (readFile     *)
(*             throws)                                                     *)
(*   meta      the parsed object when metaKind = "object"                  *)
(* A raw log under the projects directory is [id, readable, lines].        *)
(***************************************************************************)
NoMeta ==
    [summary |-> <<>>, first_prompt |-> <<>>, project_path |-> <<>>,
     duration_minutes |-> 0, tool_names |-> <<>>, start_time |-> "",
     input_tokens |-> 0, output_tokens |-> 0]

MetaFile(stem, kind, m) == [name |-> stem \o DotJson, metaKind |-> kind, meta |-> m]

T_Read == <<"R", "e", "a", "d">>
T_Bash == <<"B", "a", "s", "h">>

Id_s1 == <<"s", "1">>
Id_s3 == <<"s", "3">>
Id_s4 == <<"s", "4">>
Id_s5 == <<"s", "5">>
Id_s6 == <<"s", "6">>
Id_agent == AgentPrefix \o <<"7">>
Id_agentx == <<"a", "g", "e", "n", "t", "8">>

Meta_s1 ==
    [summary |-> <<"f", "i", "x">>, first_prompt |-> <<"h", "i">>,
     project_path |-> <<"/", "p">>, duration_minutes |-> 12,
     tool_names |-> <<T_Read, T_Bash>>, start_time |-> "t0",
     input_tokens |-> 3, output_tokens |-> 4]

Meta_s2 ==
    [summary |-> <<>>, first_prompt |-> <<"h", "e", "y">>,
     project_path |-> <<"/", "q">>, duration_minutes |-> 5,
     tool_names |-> <<T_Read>>, start_time |-> "t5",
     input_tokens |-> 2, output_tokens |-> 0]

Meta_bare == [NoMeta EXCEPT !.project_path = <<"/", "r">>]

\* The session-meta files a directory listing is drawn from.
FilePool ==
    << MetaFile(Id_s1, "object", Meta_s1),
       MetaFile(Id_agent, "object", Meta_bare),
       MetaFile(Id_s3, "null", NoMeta),
       MetaFile(Id_s4, "badjson", NoMeta),
       MetaFile(Id_s5, "object", Meta_bare),
       MetaFile(Id_s6, "object", Meta_s1),
       MetaFile(Id_agentx, "object", Meta_s2) >>

\* A file of the directory that is no session-meta file.
OtherFile == [name |-> <<"n", ".", "t", "x", "t">>, metaKind |-> "object", meta |-> NoMeta]

UserLine(ts, txt) ==
    [kind |-> "json", type |-> "user", role |-> "user", timestamp |-> ts,
     isArray |-> FALSE, str |-> txt, items |-> <<>>]

UserItemsLine(ts, its) ==
    [kind |-> "json", type |-> "user", role |-> "user", timestamp |-> ts,
     isArray |-> TRUE, str |-> <<>>, items |-> its]

AssistantLine(ts, its) ==
    [kind |-> "json", type |-> "assistant", role |-> "assistant", timestamp |-> ts,
     isArray |-> TRUE, str |-> <<>>, items |-> its]

BlankLine ==
    [kind |-> "blank", type |-> "", role |-> "", timestamp |-> "",
     isArray |-> FALSE, str |-> <<>>, items |-> <<>>]

GarbageLine == [BlankLine EXCEPT !.kind = "garbage"]

\* valid JSON whose type is neither user nor assistant
SummaryLine == [UserLine("t9", <<"x">>) EXCEPT !.type = "summary"]

\* valid JSON of type user without a message role
NoRoleLine == [UserLine("t9", <<"x">>) EXCEPT !.role = ""]

\* a prompt longer than the fallback summary
LongPrompt == [i \in 1..(FALLBACK_SUMMARY_CAP + 10) |-> IF i % 2 = 0 THEN "a" ELSE "b"]

\* six turns: two chunks
Log_s1 ==
    << SummaryLine,
       UserLine("t1", <<"q", "1">> \o LongPrompt),
       AssistantLine("t2", <<TextItem(<<"a", "1">>), ToolUseItem(T_Read)>>),
       UserItemsLine("t3", <<ToolResultItem, TextItem(<<"q", "2">>)>>),
       AssistantLine("t4", <<ToolUseItem(T_Bash), ToolUseItem(T_Read)>>),
       GarbageLine,
       UserLine("t5", <<" ", "q", "3">>),
       UserLine("t6", <<"q", "4">>),
       AssistantLine("", <<TextItem(<<"a", "4">>), TextItem(<<"b">>)>>),
       BlankLine,
       UserLine("t7", <<"q", "5">>),
       UserLine("t8", <<"q", "6">>),
       AssistantLine("t9", <<TextItem(<<"a", "6">>)>>) >>

\* every line is skipped: zero messages
Log_s5 == << BlankLine, GarbageLine, SummaryLine, NoRoleLine >>

Log_short == << UserLine("t1", <<"g", "o">>), AssistantLine("t2", <<TextItem(<<"o", "k">>)>>) >>

\* The raw logs under the projects directory, in directory order.
ProjectLogs ==
    << [id |-> Id_s1, readable |-> TRUE, lines |-> Log_s1],
       [id |-> Id_agent, readable |-> TRUE, lines |-> Log_short],
       [id |-> Id_s3, readable |-> TRUE, lines |-> Log_short],
       [id |-> Id_s5, readable |-> TRUE, lines |-> Log_s5],
       [id |-> Id_s6, readable |-> FALSE, lines |-> <<>>] >>

\* Whether readdir of the projects directory succeeds.
ProjectsDirListable == TRUE

\* findSessionJsonl: the index of the first log named sessionId.jsonl, or 0
\* (null) when there is none or the projects directory cannot be listed.
FindSessionJsonl(sessionId) ==
    LET hits == {i \in 1..Len(ProjectLogs) : ProjectLogs[i].id = sessionId}
    IN  IF ~ProjectsDirListable \/ hits = {} THEN 0
        ELSE CHOOSE i \in hits : \A j \in hits : i <= j

(***************************************************************************)
(* Meta-only summary text (embedder.ts main, template literal)             *)
(***************************************************************************)
Digit(d) == <<"0", "1", "2", "3", "4", "5", "6", "7", "8", "9">>[d + 1]

\* Number to decimal text, as a template literal prints a natural number
RECURSIVE NumToText(_)
NumToText(n) == IF n < 10 THEN <<Digit(n)>> ELSE NumToText(n \div 10) \o <<Digit(n % 10)>>

Txt_Session == <<"S", "e", "s", "s", "i", "o", "n", ":", " ">>
Txt_Project == <<".", " ", "P", "r", "o", "j", "e", "c", "t", ":", " ">>
Txt_Duration == <<".", " ", "D", "u", "r", "a", "t", "i", "o", "n", ":", " ">>
Txt_Tools == <<"m", "i", "n", ".", " ", "T", "o", "o", "l", "s", ":", " ">>
Txt_Unknown == <<"U", "n", "k", "n", "o", "w", "n">>

\* meta.summary || meta.first_prompt?.slice(0, 200) || "Unknown"
MetaHeadline(m) ==
    IF m.summary # <<>> THEN m.summary
    ELSE IF Slice(m.first_prompt, FALLBACK_SUMMARY_CAP) # <<>>
         THEN Slice(m.first_prompt, FALLBACK_SUMMARY_CAP)
    ELSE Txt_Unknown

MetaSummaryText(m) ==
    Txt_Session \o MetaHeadline(m) \o Txt_Project \o m.project_path
    \o Txt_Duration \o NumToText(m.duration_minutes)
    \o Txt_Tools \o Join(m.tool_names, CommaSpace)

\* The synthetic chunk of a session without a raw log
MetaOnlyChunk(m) ==
    [chunkIndex |-> 0, messages |-> <<>>, text |-> MetaSummaryText(m),
     startTime |-> m.start_time, endTime |-> "", toolsUsed |-> m.tool_names]

\* Mutant: the token count is the input tokens alone.
M_TokenCountInputOnly(m) == m.input_tokens

\* (meta.input_tokens || 0) + (meta.output_tokens || 0)
TokenCount(m) == m.input_tokens + m.output_tokens

(***************************************************************************)
(* Bounds of the model                                                     *)
(***************************************************************************)
\* session-meta directory listings hold at most MaxFiles .json files
MaxFiles == 2
\* logs handed to the parsers on their own have at most MaxLines lines
MaxLines == 3
\* message sequences handed to chunkSession on its own have at most
\* MaxMsgs messages
MaxMsgs == 12
\* messages of one formatChunkText input
MaxFmtMsgs == 6
\* rows of a search store with embeddings of their own
MaxStoreRows == 3
\* further rows of a search store, all with the same embedding
StoreFill == 10
\* lines of one renderMarkdown text
MaxMdLines == 5
\* messages one query yields at most
MaxAgentMsgs == 3
\* service calls (database, embedder, summarizer, health check) that fail
\* during one run of the program
MaxFaults == 1
\* embedded rows already in session_chunks that belong to sessions whose
\* meta file no longer exists
LegacyRows == 98

(***************************************************************************)
(* State                                                                   *)
(***************************************************************************)
VARIABLES
    metaFiles,    \* listing of the session-meta directory (never changes)
    tableExists,  \* session_chunks exists
    table,        \* rows of session_chunks for the listed sessions, by id
    indexExists,  \* session_chunks_embedding_idx exists
    run,          \* "none", "first" or "second": the program is started twice
    pc,           \* position of main()
    force,        \* --force
    maxSessions,  \* --limit
    jsonFiles,    \* main: jsonFiles
    embeddedIds,  \* main: embeddedIds
    fileIdx,      \* main: position of the for-of loop in jsonFiles
    processed, skipped, errors,
    meta,         \* main: meta of the session being examined
    jsonlPath,    \* main: jsonlPath (0 for null)
    chunks,       \* main: chunks of the session being examined
    chunkIdx,     \* main: position of the inner for-of loop in chunks
    exitCode,     \* process exit status, -1 while running
    rowsAtStart,  \* history: Len(table) when the current run started
    trace,        \* history: calls made by the current run, in order
    prev,         \* history: how the previous run ended
    faults,       \* history: service calls that failed in the current run
    fnIn,         \* library functions on their own: the argument
    fnOut,        \* library functions on their own: the value returned
    fnPc          \* library functions on their own: which one was applied

vars == <<metaFiles, tableExists, table, indexExists,
          run, pc, force, maxSessions, jsonFiles, embeddedIds, fileIdx,
          processed, skipped, errors, meta, jsonlPath, chunks, chunkIdx,
          exitCode, rowsAtStart, trace, prev, faults, fnIn, fnOut, fnPc>>

fnVars == <<fnIn, fnOut, fnPc>>
envVars == <<metaFiles, fnVars>>
argVars == <<run, force, maxSessions, jsonFiles, rowsAtStart, prev>>
tally == <<processed, skipped, errors>>
sessionVars == <<meta, jsonlPath, chunks, chunkIdx>>

Ev(name, sid, idx) == [ev |-> name, sid |-> sid, idx |-> idx]
Log(name) == Append(trace, Ev(name, <<>>, 0))
LogFor(name, sid, idx) == Append(trace, Ev(name, sid, idx))

\* Directory listings: OtherFile and the files of FilePool at the chosen
\* positions, in pool order.
Listing(positions) ==
    SelectSeq([i \in 1..Len(FilePool) |-> [f |-> FilePool[i], keep |-> i \in positions]],
              LAMBDA e : e.keep)

Listings ==
    {<<OtherFile>> \o [i \in 1..Len(Listing(ps)) |-> Listing(ps)[i].f] :
        ps \in {qs \in SUBSET (1..Len(FilePool)) : Cardinality(qs) <= MaxFiles}}

NoInput == [kind |-> "none", log |-> <<>>, msgs |-> <<>>]
NoOutput == [threw |-> FALSE, messages |-> <<>>]

NoPrev == [valid |-> FALSE, exit |-> -1, force |-> FALSE, errors |-> 0, examinedAll |-> FALSE]
NullMeta == [isNull |-> TRUE, v |-> NoMeta]

Init ==
    /\ metaFiles \in Listings
    /\ tableExists = (LegacyRows > 0)
    /\ table = <<>>
    /\ indexExists = FALSE
    /\ run = "none"
    /\ pc = "idle"
    /\ force = FALSE
    /\ maxSessions = MaxSessionsOf(NoLimit)
    /\ jsonFiles = <<>>
    /\ embeddedIds = {}
    /\ fileIdx = 1
    /\ processed = 0 /\ skipped = 0 /\ errors = 0
    /\ meta = NullMeta
    /\ jsonlPath = 0
    /\ chunks = <<>>
    /\ chunkIdx = 1
    /\ exitCode = -1
    /\ rowsAtStart = 0
    /\ trace = <<>>
    /\ prev = NoPrev
    /\ faults = 0
    /\ fnIn = NoInput /\ fnOut = NoOutput /\ fnPc = "off"

(***************************************************************************)
(* main(): one action per stretch of code between two awaited calls        *)
(***************************************************************************)
LimitArgs == {NoLimit, LimitNaN, Limit(0), Limit(1)}

CurFile == jsonFiles[fileIdx]
CurSessionId == SessionIdOf(CurFile.name)
CurChunk == chunks[chunkIdx]

\* How the run that just ended is remembered.
Ended ==
    [valid |-> run # "none", exit |-> exitCode, force |-> force, errors |-> errors,
     examinedAll |-> fileIdx > Len(jsonFiles)]

\* main().catch: "Fatal error", process.exit(1); also process.exit(1) of the
\* preflight check.
Exit1 ==
    /\ pc' = "fatal"
    /\ exitCode' = 1

\* The failed service calls of a step are counted against MaxFaults.
Charge(n) == faults + n <= MaxFaults /\ faults' = faults + n
Failed(ok) == IF ok THEN 0 ELSE 1

\* Program start: argument parsing, readdir of the session-meta directory,
\* the .json filter.
StartRun ==
    /\ pc \in {"idle", "done", "fatal"}
    /\ run \in {"none", "first"}
    /\ \E f \in BOOLEAN, lim \in LimitArgs :
          /\ force' = f
          /\ maxSessions' = MaxSessionsOf(lim)
    /\ run' = IF run = "none" THEN "first" ELSE "second"
    /\ faults' = 0
    /\ prev' = Ended
    /\ jsonFiles' = JsonFilesOf(metaFiles)
    /\ rowsAtStart' = Len(table)
    /\ trace' = <<Ev("readdir", <<>>, 0)>>
    /\ embeddedIds' = {}
    /\ fileIdx' = 1
    /\ processed' = 0 /\ skipped' = 0 /\ errors' = 0
    /\ meta' = NullMeta /\ jsonlPath' = 0 /\ chunks' = <<>> /\ chunkIdx' = 1
    /\ exitCode' = -1
    /\ pc' = "ensure"
    /\ UNCHANGED <<envVars, tableExists, table, indexExists>>

\* ensureTable: CREATE TABLE IF NOT EXISTS (a failure is fatal), then
\* CREATE INDEX IF NOT EXISTS (a failure is swallowed).
EnsureTable ==
    /\ pc = "ensure"
    /\ \E tableOk \in BOOLEAN, indexOk \in BOOLEAN :
          /\ Charge(IF tableOk THEN Failed(indexOk) ELSE 1)
          /\ ~tableOk => indexOk
          /\ IF ~tableOk
             THEN /\ Exit1
                  /\ trace' = Log("exit1")
                  /\ UNCHANGED <<tableExists, indexExists>>
             ELSE /\ tableExists' = TRUE
                  /\ indexExists' = (indexExists \/ indexOk)
                  /\ trace' = Log("ensureTable")
                  /\ pc' = "getIds"
                  /\ UNCHANGED exitCode
    /\ UNCHANGED <<envVars, argVars, table, embeddedIds, fileIdx, tally, sessionVars>>

\* const embeddedIds = force ? new Set() : await getEmbeddedSessionIds(pool)
LoadEmbeddedIds ==
    /\ pc = "getIds"
    /\ \E queryOk \in BOOLEAN :
          /\ Charge(Failed(queryOk))
          /\ force => queryOk
          /\ IF ~queryOk
             THEN /\ Exit1
                  /\ trace' = Log("exit1")
                  /\ UNCHANGED embeddedIds
             ELSE /\ embeddedIds' = EmbeddedIdsFor(force, table)
                  /\ trace' = Log("embeddedIds")
                  /\ pc' = "preflight"
                  /\ UNCHANGED exitCode
    /\ UNCHANGED <<envVars, argVars, tableExists, table, indexExists, fileIdx, tally,
                   sessionVars>>

\* Mutant: a failed Ollama check does not stop the run.
M_AfterPreflightContinue(ollamaOk) == "loop"

\* Where main goes after the Ollama check.
AfterPreflight(ollamaOk) == IF ollamaOk THEN "loop" ELSE "fatal"

\* "Check Ollama": fetch /api/tags; not ok or unreachable is process.exit(1).
CheckOllama ==
    /\ pc = "preflight"
    /\ \E ollamaOk \in BOOLEAN :
          /\ Charge(Failed(ollamaOk))
          /\ pc' = AfterPreflight(ollamaOk)
          /\ exitCode' = IF ollamaOk THEN exitCode ELSE 1
          /\ trace' = Log(IF ollamaOk THEN "preflight" ELSE "ollamaError")
    /\ UNCHANGED <<envVars, argVars, tableExists, table, indexExists, embeddedIds,
                   fileIdx, tally, sessionVars>>

\* Mutant: a session without a raw log is skipped instead of indexed from
\* its metadata.
M_LoopDecisionOmitsLogless ==
    IF fileIdx > Len(jsonFiles) THEN "end"
    ELSE IF CapReached(processed, maxSessions) THEN "break"
    ELSE IF SessionIdOf(jsonFiles[fileIdx].name) \in embeddedIds THEN "skip"
    ELSE IF IsAgentSession(SessionIdOf(jsonFiles[fileIdx].name)) THEN "skip"
    ELSE IF jsonFiles[fileIdx].metaKind \in {"unreadable", "badjson"} THEN "error"
    ELSE IF FindSessionJsonl(SessionIdOf(jsonFiles[fileIdx].name)) = 0 THEN "skip"
    ELSE "jsonl"

\* What the head of the for-of loop decides for the file at fileIdx:
\*   "end"    no file is left
\*   "break"  processed >= maxSessions
\*   "skip"   already embedded, or an agent sub-session
\*   "error"  the meta file cannot be read or parsed
\*   "meta"   no raw log: the meta-only branch
\*   "jsonl"  a raw log was found
LoopDecision ==
    IF fileIdx > Len(jsonFiles) THEN "end"
    ELSE IF CapReached(processed, maxSessions) THEN "break"
    ELSE IF CurSessionId \in embeddedIds THEN "skip"
    ELSE IF IsAgentSession(CurSessionId) THEN "skip"
    ELSE IF CurFile.metaKind \in {"unreadable", "badjson"} THEN "error"
    ELSE IF FindSessionJsonl(CurSessionId) = 0 THEN "meta"
    ELSE "jsonl"

\* Mutant: break leaves main's loop past the index rebuild.
M_LoopTargetBreakSkipsRebuild(d) ==
    CASE d = "end" -> "index"
      [] d = "break" -> "tally"
      [] d \in {"skip", "error"} -> "loop"
      [] d = "meta" -> "metaOnly"
      [] d = "jsonl" -> "jsonl"

\* Where the loop head goes: break and loop exit fall through to the index
\* rebuild, continue returns to the loop head.
LoopTarget(d) ==
    CASE d \in {"end", "break"} -> "index"
      [] d \in {"skip", "error"} -> "loop"
      [] d = "meta" -> "metaOnly"
      [] d = "jsonl" -> "jsonl"

\* The loop head up to the first awaited service call of the session.
LoopHead ==
    /\ pc = "loop"
    /\ LET d == LoopDecision IN
          /\ pc' = LoopTarget(d)
          /\ fileIdx' = IF d \in {"skip", "error"} THEN fileIdx + 1 ELSE fileIdx
          /\ skipped' = IF d = "skip" THEN skipped + 1 ELSE skipped
          /\ errors' = IF d = "error" THEN errors + 1 ELSE errors
          /\ meta' = IF d \in {"meta", "jsonl"}
                     THEN [isNull |-> CurFile.metaKind = "null", v |-> CurFile.meta]
                     ELSE meta
          /\ jsonlPath' = IF d \in {"meta", "jsonl"}
                          THEN FindSessionJsonl(CurSessionId)
                          ELSE jsonlPath
          /\ trace' = CASE d = "end" -> Log("loopEnd")
                        [] d = "break" -> Log("break")
                        [] d = "skip" -> LogFor("skip", CurSessionId, 0)
                        [] d = "error" -> LogFor("metaError", CurSessionId, 0)
                        [] OTHER -> LogFor("loadMeta", CurSessionId, 0)
    /\ UNCHANGED <<envVars, argVars, tableExists, table, indexExists, embeddedIds,
                   processed, chunks, chunkIdx, exitCode, faults>>

\* The row the meta-only branch inserts.
MetaOnlyRow(response) ==
    ChunkRow(CurSessionId, MetaOnlyChunk(meta.v), MetaSummaryText(meta.v),
             EmbedText(response), meta.v.project_path, TokenCount(meta.v))

\* How the meta-only try block ends: "ok", or the step that threw.
MetaOnlyOutcome(response, insertOk) ==
    IF meta.isNull THEN "typeError"
    ELSE IF EmbedTextThrows(response) THEN "embedError"
    ELSE IF ~insertOk THEN "insertError"
    ELSE "ok"

\* No raw log: embed the meta summary, insert one synthetic chunk.
MetaOnly ==
    /\ pc = "metaOnly"
    /\ \E response \in EmbedResponses, insertOk \in BOOLEAN :
          LET o == MetaOnlyOutcome(response, insertOk) IN
          /\ Charge(IF o \in {"embedError", "insertError"} THEN 1 ELSE 0)
          /\ o = "typeError" => response = "ok"
          /\ o \in {"typeError", "embedError"} => insertOk
          /\ table' = IF o = "ok" THEN Append(table, MetaOnlyRow(response)) ELSE table
          /\ processed' = IF o = "ok" THEN processed + 1 ELSE processed
          /\ errors' = IF o = "ok" THEN errors ELSE errors + 1
          /\ trace' = CASE o = "typeError" -> LogFor("sessionError", CurSessionId, 0)
                        [] o = "embedError" ->
                             LogFor("sessionError", CurSessionId, 0)
                        [] o = "insertError" ->
                             Append(LogFor("embed", CurSessionId, 0),
                                    Ev("sessionError", CurSessionId, 0))
                        [] OTHER ->
                             Append(LogFor("embed", CurSessionId, 0),
                                    Ev("insert", CurSessionId, 0))
    /\ fileIdx' = fileIdx + 1
    /\ pc' = "loop"
    /\ UNCHANGED <<envVars, argVars, tableExists, indexExists, embeddedIds, skipped,
                   sessionVars, exitCode>>

\* Mutant: an unreadable log is treated like an empty one.
M_ParseOutcomeReadErrorAsEmpty ==
    IF meta.isNull THEN "crash"
    ELSE IF ~ProjectLogs[jsonlPath].readable THEN "empty"
    ELSE IF ParseThrows(ProjectLogs[jsonlPath].lines) THEN "readError"
    ELSE IF Len(ParseSessionJsonl(ProjectLogs[jsonlPath].lines)) = 0 THEN "empty"
    ELSE "chunks"

\* How the code from console.log("  Project: ...") to chunkSession ends:
\*   "crash"    meta is null: the property access outside the try throws
\*   "readError" readFile of the log or its parse throws (caught)
\*   "empty"    the log parses to no message
\*   "chunks"   the chunk loop starts
ParseOutcome ==
    IF meta.isNull THEN "crash"
    ELSE IF ~ProjectLogs[jsonlPath].readable THEN "readError"
    ELSE IF ParseThrows(ProjectLogs[jsonlPath].lines) THEN "readError"
    ELSE IF Len(ParseSessionJsonl(ProjectLogs[jsonlPath].lines)) = 0 THEN "empty"
    ELSE "chunks"

\* A raw log was found: read it, parse it, chunk it.
ReadAndChunk ==
    /\ pc = "jsonl"
    /\ LET o == ParseOutcome IN
          /\ pc' = CASE o = "crash" -> "fatal"
                     [] o = "chunks" -> "chunk"
                     [] OTHER -> "loop"
          /\ exitCode' = IF o = "crash" THEN 1 ELSE exitCode
          /\ errors' = IF o = "readError" THEN errors + 1 ELSE errors
          /\ skipped' = IF o = "empty" THEN skipped + 1 ELSE skipped
          /\ fileIdx' = IF o \in {"readError", "empty"} THEN fileIdx + 1 ELSE fileIdx
          /\ chunks' = IF o = "chunks"
                       THEN ChunkSession(ParseSessionJsonl(ProjectLogs[jsonlPath].lines))
                       ELSE chunks
          /\ chunkIdx' = IF o = "chunks" THEN 1 ELSE chunkIdx
          /\ trace' = CASE o = "crash" -> Log("exit1")
                        [] o = "readError" -> LogFor("sessionError", CurSessionId, 0)
                        [] o = "empty" -> LogFor("skipEmpty", CurSessionId, 0)
                        [] OTHER -> LogFor("parse", CurSessionId, 0)
    /\ UNCHANGED <<envVars, argVars, tableExists, table, indexExists, embeddedIds,
                   processed, meta, jsonlPath, faults>>

\* The row the chunk loop inserts for the current chunk.
ChunkLoopRow(summary, response) ==
    ChunkRow(CurSessionId, CurChunk, summary, EmbedText(response),
             meta.v.project_path, TokenCount(meta.v))

\* How one iteration of the chunk loop ends: "ok", or the step that threw.
ChunkOutcome(response, insertOk) ==
    IF EmbedTextThrows(response) THEN "embedError"
    ELSE IF ~insertOk THEN "insertError"
    ELSE "ok"

\* Mutant: the catch block removes the rows the run stored for the session.
M_TableAfterChunkRollsBack(o, row) ==
    IF o = "ok" THEN Append(table, row)
    ELSE SubSeq(table, 1, rowsAtStart)
         \o SelectSeq(SubSeq(table, rowsAtStart + 1, Len(table)),
                      LAMBDA r : r.session_id # row.session_id)

\* session_chunks after one iteration: the INSERT adds a row, the catch
\* block of the session touches nothing.
TableAfterChunk(o, row) == IF o = "ok" THEN Append(table, row) ELSE table

\* One iteration of the chunk loop: summarize, embed the summary, insert.
ProcessChunk ==
    /\ pc = "chunk"
    /\ \E summaryOk \in BOOLEAN, response \in EmbedResponses, insertOk \in BOOLEAN :
          LET o == ChunkOutcome(response, insertOk)
              summary == SummarizeChunk(CurChunk.text, summaryOk)
              last == chunkIdx = Len(chunks)
              called == LogFor("summarize", CurSessionId, CurChunk.chunkIndex)
                        \o (IF summaryOk THEN <<>>
                            ELSE <<Ev("summaryFallback", CurSessionId, CurChunk.chunkIndex)>>)
          IN
          /\ Charge(Failed(summaryOk) + Failed(o = "ok"))
          /\ o = "embedError" => insertOk
          /\ table' = TableAfterChunk(o, ChunkLoopRow(summary, response))
          /\ errors' = IF o = "ok" THEN errors ELSE errors + 1
          /\ processed' = IF o = "ok" /\ last THEN processed + 1 ELSE processed
          /\ chunkIdx' = IF o = "ok" /\ ~last THEN chunkIdx + 1 ELSE 1
          /\ chunks' = IF o = "ok" /\ ~last THEN chunks ELSE <<>>
          /\ fileIdx' = IF o = "ok" /\ ~last THEN fileIdx ELSE fileIdx + 1
          /\ pc' = IF o = "ok" /\ ~last THEN "chunk" ELSE "loop"
          /\ trace' = CASE o = "embedError" ->
                             Append(called, Ev("sessionError", CurSessionId, 0))
                        [] o = "insertError" ->
                             Append(called, Ev("embed", CurSessionId, CurChunk.chunkIndex))
                             \o <<Ev("sessionError", CurSessionId, 0)>>
                        [] OTHER ->
                             Append(called, Ev("embed", CurSessionId, CurChunk.chunkIndex))
                             \o <<Ev("insert", CurSessionId, CurChunk.chunkIndex)>>
    /\ UNCHANGED <<envVars, argVars, tableExists, indexExists, embeddedIds, skipped,
                   meta, jsonlPath, exitCode>>

\* SELECT COUNT(*) ... WHERE embedding_vec IS NOT NULL: every row carries
\* an embedding.
EmbeddedRowCount == LegacyRows + Len(table)

\* Mutant: exactly 100 rows are not enough.
M_IndexWantedStrict(count) == count > INDEX_MIN_ROWS

\* count >= 100
IndexWanted(count) == count >= INDEX_MIN_ROWS

\* The count query of the rebuild step; any failure is only logged.
CountRows ==
    /\ pc = "index"
    /\ \E queryOk \in BOOLEAN :
          /\ Charge(Failed(queryOk))
          /\ pc' = IF queryOk /\ IndexWanted(EmbeddedRowCount) THEN "drop" ELSE "tally"
          /\ trace' = Log(IF queryOk THEN "count" ELSE "indexNote")
    /\ UNCHANGED <<envVars, argVars, tableExists, table, indexExists, embeddedIds,
                   fileIdx, tally, sessionVars, exitCode>>

\* DROP INDEX IF EXISTS
DropIndex ==
    /\ pc = "drop"
    /\ \E queryOk \in BOOLEAN :
          /\ Charge(Failed(queryOk))
          /\ pc' = IF queryOk THEN "create" ELSE "tally"
          /\ indexExists' = IF queryOk THEN FALSE ELSE indexExists
          /\ trace' = Log(IF queryOk THEN "drop" ELSE "indexNote")
    /\ UNCHANGED <<envVars, argVars, tableExists, table, embeddedIds,
                   fileIdx, tally, sessionVars, exitCode>>

\* CREATE INDEX ... USING ivfflat
CreateIndex ==
    /\ pc = "create"
    /\ \E queryOk \in BOOLEAN :
          /\ Charge(Failed(queryOk))
          /\ indexExists' = IF queryOk THEN TRUE ELSE indexExists
          /\ trace' = Log(IF queryOk THEN "create" ELSE "indexNote")
    /\ pc' = "tally"
    /\ UNCHANGED <<envVars, argVars, tableExists, table, embeddedIds,
                   fileIdx, tally, sessionVars, exitCode>>

\* console.log("Done! Processed: ..."), pool.end(), normal exit
PrintDone ==
    /\ pc = "tally"
    /\ pc' = "done"
    /\ exitCode' = 0
    /\ trace' = Log("done")
    /\ UNCHANGED <<envVars, argVars, tableExists, table, indexExists, embeddedIds,
                   fileIdx, tally, sessionVars, faults>>

Next ==
    \/ StartRun
    \/ EnsureTable
    \/ LoadEmbeddedIds
    \/ CheckOllama
    \/ LoopHead
    \/ MetaOnly
    \/ ReadAndChunk
    \/ ProcessChunk
    \/ CountRows
    \/ DropIndex
    \/ CreateIndex
    \/ PrintDone

Spec == Init /\ [][Next]_vars

(***************************************************************************)
(* Query path (tools.ts embedText, search_sessions)                        *)
(***************************************************************************)
SEARCH_DEFAULT_LIMIT == 10
EXCERPT_CAP == 300

\* Distances and similarities are fixed-point numbers in units of 1/Scale.
Scale == 10000

RECURSIVE Newton(_, _)
Newton(x, n) ==
    LET y == (x + (n \div x)) \div 2
    IN  IF y >= x THEN x ELSE Newton(y, n)

\* the integer square root of p * Scale * Scale, from the first guess p * Scale
ScaledSqrt(p) == IF p = 0 THEN 0 ELSE Newton(p * Scale, p * Scale * Scale)

Abs(x) == IF x < 0 THEN 0 - x ELSE x
Sign(x) == IF x < 0 THEN 0 - 1 ELSE 1

Dot(u, v) == u[1] * v[1] + u[2] * v[2]

\* embedding_vec <=> $1 : the cosine distance of pgvector
CosineDistance(u, v) ==
    LET norms == ScaledSqrt(Dot(u, u) * Dot(v, v))
        cos == Sign(Dot(u, v)) * ((Abs(Dot(u, v)) * Scale * Scale) \div norms)
    IN  Scale - cos

\* parseFloat(x).toFixed(3): thousandths, rounded half away from zero
ToFixed3(x) == Sign(x) * ((Abs(x) + 5) \div 10)

\* tools.ts embedText: the request fails ("unreachable"), the status is not
\* 2xx ("status"), or the body is returned as it is; "nofield" is a 2xx body
\* without the embedding field.
ToolsEmbedResponses == {"ok", "status", "unreachable", "nofield"}
ToolsEmbedTextThrows(response) == response \in {"status", "unreachable"}
\* data.embedding
ToolsEmbedText(response, vector) == IF response = "ok" THEN vector ELSE NullVector

\* const maxResults = limit || 10
MaxResultsOf(limit) ==
    IF ~limit.given \/ limit.n = 0 THEN SEARCH_DEFAULT_LIMIT ELSE limit.n

Reverse(s) == [n \in 1..Len(s) |-> s[Len(s) + 1 - n]]

\* ORDER BY embedding_vec <=> $1 over the rows with an embedding: the
\* distances in ascending order; rows at the same distance come in the order
\* the executor happens to produce (tie): by position, upwards or downwards.
\* vecs are the distinct embeddings of the store, dists their distances.
RECURSIVE OrderByDistance(_, _, _, _, _)
OrderByDistance(dists, vecs, store, vector, tie) ==
    IF dists = {} THEN <<>>
    ELSE LET d == CHOOSE x \in dists : \A y \in dists : x <= y
             near == {u \in vecs : CosineDistance(u, vector) = d}
             class == SelectSeq([i \in 1..Len(store) |-> i],
                                LAMBDA i : store[i].embedding_vec \in near)
         IN  (IF tie = "asc" THEN class ELSE Reverse(class))
             \o OrderByDistance(dists \ {d}, vecs, store, vector, tie)

\* result.rows of the SELECT ... WHERE embedding_vec IS NOT NULL ORDER BY ... LIMIT $2
SelectNearest(store, vector, k, tie) ==
    LET vecs == {store[i].embedding_vec : i \in 1..Len(store)} \ {NullVector}
        dists == {CosineDistance(u, vector) : u \in vecs}
        order == Slice(OrderByDistance(dists, vecs, store, vector, tie), k)
    IN  [n \in 1..Len(order) |->
            [session_id     |-> store[order[n]].session_id,
             chunk_index    |-> store[order[n]].chunk_index,
             summary        |-> store[order[n]].summary,
             raw_excerpt    |-> store[order[n]].raw_excerpt,
             tools_used     |-> store[order[n]].tools_used,
             project        |-> store[order[n]].project,
             classification |-> store[order[n]].classification,
             similarity     |->
                 Scale - CosineDistance(store[order[n]].embedding_vec, vector)]]

\* result.rows.map(...)
Match(row) ==
    [session_id     |-> row.session_id,
     chunk_index    |-> row.chunk_index,
     summary        |-> row.summary,
     excerpt        |-> Slice(row.raw_excerpt, EXCERPT_CAP),
     tools_used     |-> row.tools_used,
     project        |-> row.project,
     classification |-> row.classification,
     similarity     |-> ToFixed3(row.similarity)]

ErrOllama == "Ollama not available for embedding. Is it running?"
ErrPgvector == "pgvector query failed"

\* What one call of the handler comes to: kind "payload" is the returned
\* content, kind "throw" an exception leaving the handler. queried tells
\* whether pool.query was called, rows is result.rows.
SearchOutcome(kind, error, queried, rows) ==
    [kind |-> kind, error |-> error, queried |-> queried, rows |-> rows,
     results |-> [n \in 1..Len(rows) |-> Match(rows[n])], count |-> Len(rows)]

\* Whether the SELECT fails: the server or the table is not there, or the
\* LIMIT is negative.
QueryThrows(tablePresent, dbOk, k) == ~dbOk \/ ~tablePresent \/ k < 0

\* Mutant: the default replaces every limit.
M_SearchSessionsDefaultOnly(store, tablePresent, limit, response, vector, dbOk, tie) ==
    IF ToolsEmbedTextThrows(response)
    THEN SearchOutcome("payload", ErrOllama, FALSE, <<>>)
    ELSE IF ToolsEmbedText(response, vector) = NullVector
    THEN SearchOutcome("throw", "", FALSE, <<>>)
    ELSE IF QueryThrows(tablePresent, dbOk, MaxResultsOf(limit))
    THEN SearchOutcome("payload", ErrPgvector, TRUE, <<>>)
    ELSE SearchOutcome("payload", "", TRUE,
                       SelectNearest(store, vector, SEARCH_DEFAULT_LIMIT, tie))

\* The search_sessions handler.
SearchSessions(store, tablePresent, limit, response, vector, dbOk, tie) ==
    IF ToolsEmbedTextThrows(response)
    THEN SearchOutcome("payload", ErrOllama, FALSE, <<>>)
    \* embedding.join(",") on undefined, outside both try blocks
    ELSE IF ToolsEmbedText(response, vector) = NullVector
    THEN SearchOutcome("throw", "", FALSE, <<>>)
    ELSE IF QueryThrows(tablePresent, dbOk, MaxResultsOf(limit))
    THEN SearchOutcome("payload", ErrPgvector, TRUE, <<>>)
    ELSE SearchOutcome("payload", "", TRUE,
                       SelectNearest(store, vector, MaxResultsOf(limit), tie))

(***************************************************************************)
(* The parsers and the chunker on their own                                *)
(*                                                                         *)
(* FnSpec hands one argument, drawn from the bounded sets below, to        *)
(* parseSessionJsonl of tools.ts, parseSessionJsonl of embedder.ts,        *)
(* chunkSession, formatChunkText or the search_sessions handler and keeps  *)
(* the value returned.                                                     *)
(***************************************************************************)
FnLine(kind, type, role, isArray, str, items, usage, model) ==
    [kind |-> kind, type |-> type, role |-> role, timestamp |-> "",
     isArray |-> isArray, str |-> str, items |-> items,
     usage |-> usage, model |-> model]

FnBlank == FnLine("blank", "", "", FALSE, <<>>, <<>>, NoUsage, "")
FnGarbage == FnLine("garbage", "", "", FALSE, <<>>, <<>>, NoUsage, "")
\* the JSON text null
FnNull == FnLine("null", "", "", FALSE, <<>>, <<>>, NoUsage, "")
FnSummary == FnLine("json", "summary", "user", FALSE, <<"x">>, <<>>, NoUsage, "")
FnNoRole == FnLine("json", "user", "", FALSE, <<"x">>, <<>>, NoUsage, "")
FnUser == FnLine("json", "user", "user", FALSE, <<"h", "i">>, <<>>, NoUsage, "")
FnUse(id) ==
    FnLine("json", "assistant", "assistant", TRUE, <<>>,
           <<RichText(<<"o", "k">>), RichToolUse(id, T_Read)>>, "u1", "m1")
FnResult(id, r) ==
    FnLine("json", "user", "user", TRUE, <<>>,
           <<RichToolResult(id, r.content, r.is_error)>>, NoUsage, "")

ToolIds == {"a", "b"}
ShortResult == <<"o", "u", "t">>
\* a tool result longer than the stored result
LongResult == [i \in 1..(TOOL_RESULT_CAP + 5) |-> IF i % 2 = 0 THEN "x" ELSE "y"]
FnResults ==
    {[content |-> ShortResult, is_error |-> FALSE],
     [content |-> LongResult, is_error |-> TRUE]}

FnLineSet ==
    {FnBlank, FnGarbage, FnNull, FnSummary, FnNoRole, FnUser}
    \cup {FnUse(id) : id \in ToolIds}
    \cup {FnResult(id, r) : id \in ToolIds, r \in FnResults}

FnLogs == UNION {[1..n -> FnLineSet] : n \in 0..MaxLines}

\* message sequences: the i-th message carries i as its content
FnMessage(role, i) ==
    [role |-> role, content |-> NumToText(i), timestamp |-> "", toolNames |-> <<>>]

FnMessageSeqs ==
    {[i \in 1..Len(rs) |-> FnMessage(rs[i], i)] :
        rs \in UNION {[1..n -> {"user", "assistant"}] : n \in 0..MaxMsgs}}

\* messages for formatChunkText: contents on both sides of MSG_TEXT_CAP, with
\* and without tool names
LongContent == [i \in 1..(MSG_TEXT_CAP + 5) |-> IF i % 3 = 0 THEN "c" ELSE "d"]
FnFmtMessages ==
    {[role |-> "user", content |-> <<"h", "i">>, timestamp |-> "", toolNames |-> <<>>],
     [role |-> "user", content |-> LongContent, timestamp |-> "", toolNames |-> <<>>],
     [role |-> "assistant", content |-> LongContent, timestamp |-> "",
      toolNames |-> <<T_Read, T_Bash>>]}
FnFmtSeqs == UNION {[1..n -> FnFmtMessages] : n \in 0..MaxFmtMsgs}

\* stores for search_sessions: up to MaxStoreRows rows with embeddings at
\* different distances or without one, then none or StoreFill further rows
StoreVectors == {<<1, 0>>, <<1, 1>>, <<-1, 0>>, NullVector}
FillVector == <<0, 1>>
QueryVectors == {<<1, 0>>, <<1, 1>>}

StoreRow(i, vector) ==
    [session_id     |-> <<"s">>,
     chunk_index    |-> i,
     summary        |-> <<"s", "u", "m">>,
     raw_excerpt    |-> <<"e", "x">>,
     embedding_vec  |-> vector,
     start_time     |-> Null,
     end_time       |-> Null,
     tools_used     |-> <<>>,
     project        |-> <<"p">>,
     classification |-> Null,
     token_count    |-> 0]

FnStores ==
    {[i \in 1..(Len(vs) + fill) |->
         StoreRow(i, IF i <= Len(vs) THEN vs[i] ELSE FillVector)] :
        vs \in UNION {[1..n -> StoreVectors] : n \in 0..MaxStoreRows},
        fill \in {0, StoreFill}}

SearchLimits == {NoLimit, Limit(0), Limit(1), Limit(2), Limit(StoreFill + 2), Limit(-1)}

FnSearches ==
    {[kind |-> "search", log |-> <<>>, msgs |-> <<>>,
      store |-> s, limit |-> l, vector |-> v] :
        s \in FnStores, l \in SearchLimits, v \in QueryVectors}

FnInit ==
    /\ metaFiles = <<OtherFile>>
    /\ tableExists = FALSE
    /\ table = <<>>
    /\ indexExists = FALSE
    /\ run = "none"
    /\ pc = "idle"
    /\ force = FALSE
    /\ maxSessions = MaxSessionsOf(NoLimit)
    /\ jsonFiles = <<>>
    /\ embeddedIds = {}
    /\ fileIdx = 1
    /\ processed = 0 /\ skipped = 0 /\ errors = 0
    /\ meta = NullMeta
    /\ jsonlPath = 0
    /\ chunks = <<>>
    /\ chunkIdx = 1
    /\ exitCode = -1
    /\ rowsAtStart = 0
    /\ trace = <<>>
    /\ prev = NoPrev
    /\ faults = 0
    /\ fnIn \in {[kind |-> "log", log |-> l, msgs |-> <<>>] : l \in FnLogs}
                \cup {[kind |-> "msgs", log |-> <<>>, msgs |-> ms] : ms \in FnMessageSeqs}
                \cup {[kind |-> "fmt", log |-> <<>>, msgs |-> ms] : ms \in FnFmtSeqs}
                \cup FnSearches
    /\ fnOut = NoOutput
    /\ fnPc = "in"

mainVars ==
    <<metaFiles, tableExists, table, indexExists, run, pc, force, maxSessions,
      jsonFiles, embeddedIds, fileIdx, processed, skipped, errors, meta,
      jsonlPath, chunks, chunkIdx, exitCode, rowsAtStart, trace, prev, faults>>

\* tools.ts: parseSessionJsonl(content)
ApplyToolsParse ==
    /\ fnPc = "in" /\ fnIn.kind = "log"
    /\ fnOut' = ToolsParseResult(fnIn.log)
    /\ fnPc' = "toolsParsed"
    /\ UNCHANGED <<mainVars, fnIn>>

\* embedder.ts: parseSessionJsonl(content)
ApplyParse ==
    /\ fnPc = "in" /\ fnIn.kind = "log"
    /\ fnOut' = ParseResult(fnIn.log)
    /\ fnPc' = "parsed"
    /\ UNCHANGED <<mainVars, fnIn>>

\* embedder.ts: chunkSession(messages), with the turns it builds on the way
ApplyChunkSession ==
    /\ fnPc = "in" /\ fnIn.kind = "msgs"
    /\ fnOut' = [turns |-> Turns(fnIn.msgs), chunks |-> ChunkSession(fnIn.msgs)]
    /\ fnPc' = "chunked"
    /\ UNCHANGED <<mainVars, fnIn>>

\* embedder.ts: formatChunkText(messages)
ApplyFormatChunkText ==
    /\ fnPc = "in" /\ fnIn.kind = "fmt"
    /\ fnOut' = [text |-> FormatChunkText(fnIn.msgs)]
    /\ fnPc' = "formatted"
    /\ UNCHANGED <<mainVars, fnIn>>

\* tools.ts: one call of search_sessions; the table may be missing only
\* while the store is empty
ApplySearchSessions ==
    /\ fnPc = "in" /\ fnIn.kind = "search"
    /\ \E response \in ToolsEmbedResponses, dbOk \in BOOLEAN,
          tablePresent \in BOOLEAN, tie \in {"asc", "desc"} :
          /\ ~tablePresent => fnIn.store = <<>>
          /\ fnOut' = [out |-> SearchSessions(fnIn.store, tablePresent, fnIn.limit,
                                              response, fnIn.vector, dbOk, tie),
                       response |-> response, dbOk |-> dbOk,
                       tablePresent |-> tablePresent]
    /\ fnPc' = "searched"
    /\ UNCHANGED <<mainVars, fnIn>>

FnNext ==
    \/ ApplyToolsParse
    \/ ApplyParse
    \/ ApplyChunkSession
    \/ ApplyFormatChunkText
    \/ ApplySearchSessions

FnSpec == FnInit /\ [][FnNext]_vars

(***************************************************************************)
(* Searches beside an indexing run                                         *)
(*                                                                         *)
(* ConcSpec runs main() over a directory of two sessions while             *)
(* search_sessions calls arrive at any point of it. A call is one SELECT   *)
(* on the store as it is at that moment; its payload is kept until the     *)
(* caller has taken it.                                                    *)
(***************************************************************************)
\* the rows that were in session_chunks before the first run
LegacyStore == [i \in 1..LegacyRows |-> StoreRow(i, FillVector)]

\* Mutant: a query also sees the row of the chunk that is being processed.
M_StoreNowSeesPending ==
    LegacyStore \o table
    \o (IF pc = "chunk" THEN <<StoreRow(0, ServiceEmbedding)>> ELSE <<>>)

\* session_chunks as a query sees it: the rows whose INSERT has returned
StoreNow == LegacyStore \o table

\* s1 (a log of two chunks) and agentx (no log, one synthetic chunk)
ConcListing ==
    <<OtherFile>> \o [i \in 1..Len(Listing({1, 7})) |-> Listing({1, 7})[i].f]

ConcInit == Init /\ metaFiles = ConcListing

ConcLimits == {NoLimit, Limit(1)}

\* one search_sessions call arriving during (or outside) a run
SearchDuringRun ==
    /\ fnPc = "off"
    /\ \E limit \in ConcLimits, vector \in QueryVectors,
          response \in ToolsEmbedResponses, dbOk \in BOOLEAN, tie \in {"asc", "desc"} :
          \* a call that fails is drawn once, whatever its other inputs
          /\ (response # "ok" \/ ~dbOk) =>
                limit = NoLimit /\ vector = ServiceEmbedding /\ tie = "asc"
          /\ response # "ok" => dbOk
          /\ fnOut' = [out |-> SearchSessions(StoreNow, tableExists, limit, response,
                                              vector, dbOk, tie),
                       response |-> response, dbOk |-> dbOk,
                       tablePresent |-> tableExists]
    /\ fnPc' = "searched"
    /\ UNCHANGED <<mainVars, fnIn>>

\* the caller takes the payload
SearchReturn ==
    /\ fnPc = "searched"
    /\ fnOut' = NoOutput
    /\ fnPc' = "off"
    /\ UNCHANGED <<mainVars, fnIn>>

ConcNext ==
    \/ fnPc = "off" /\ Next
    \/ SearchDuringRun
    \/ SearchReturn

ConcSpec == ConcInit /\ [][ConcNext]_vars

(***************************************************************************)
(* Markdown rendering (test-markdown.ts)                                   *)
(*                                                                         *)
(* A text is the sequence of its lines (the text split at "\n"), a line a  *)
(* sequence of characters. Html is a sequence whose elements are           *)
(* characters, tags and entities, each tag and entity one element. The     *)
(* lines drawn hold a fence, a heading, a bullet, a table row or plain     *)
(* text on their own; the branches of renderMarkdown for ordered lists,    *)
(* horizontal rules and bare heading markers, and the code, strong and em  *)
(* replacements of inlineFormat, which none of these lines can reach, are  *)
(* left out.                                                               *)
(***************************************************************************)
Nul == "NUL"
\* the backtick character
Backtick == "BACKTICK"
Backticks == <<Backtick, Backtick, Backtick>>
Bar == <<"|">>

EscapeChar(c) ==
    CASE c = "&" -> "&amp;"
      [] c = "<" -> "&lt;"
      [] c = ">" -> "&gt;"
      [] c = "\"" -> "&quot;"
      [] OTHER -> c

\* escapeHtml
EscapeHtml(s) == [i \in 1..Len(s) |-> EscapeChar(s[i])]

\* inlineFormat: escapeHtml, a "<br>" put in for a line break staying a tag
InlineFormat(s) == EscapeHtml(s)

\* a line that is a fence: it opens a block when a later fence closes it
IsFence(line) == line = Backticks

\* `\x00CB${n}\x00`
Placeholder(n) == <<Nul, "C", "B">> \o NumToText(n) \o <<Nul>>
IsDigit(c) == c \in {"0", "1", "2", "3", "4", "5", "6", "7", "8", "9"}
DigitValue(c) == CHOOSE d \in 0..9 : Digit(d) = c

\* /\x00CB(\d+)\x00/ at position i of s (block numbers of one digit)
PlaceholderAt(s, i) ==
    /\ i + 4 <= Len(s)
    /\ s[i] = Nul /\ s[i + 1] = "C" /\ s[i + 2] = "B"
    /\ IsDigit(s[i + 3]) /\ s[i + 4] = Nul

RECURSIVE HashCount(_)
HashCount(line) ==
    IF line # <<>> /\ Head(line) = "#" THEN 1 + HashCount(Tail(line)) ELSE 0

\* /^#{1,6} / : what the heading separation looks for after a line break
StartsHeading(line) ==
    /\ HashCount(line) \in 1..6
    /\ Len(line) > HashCount(line) /\ line[HashCount(line) + 1] = " "

\* /^(#{1,6}) (.+)$/
IsHeading(line) == StartsHeading(line) /\ Len(line) > HashCount(line) + 1

\* /^\|[\s-:|]+\|$/
IsSeparatorRow(line) ==
    /\ Len(line) >= 3 /\ line[1] = "|" /\ line[Len(line)] = "|"
    /\ \A i \in 2..(Len(line) - 1) : line[i] \in {" ", "-", ":", "|"}

\* /^[-*] /
IsBullet(line) == Len(line) >= 2 /\ line[1] \in {"-", "*"} /\ line[2] = " "

\* text.replace(/```(\w*)\n([\s\S]*?)```/g, ...): from an opening fence to
\* the next fence the lines become one placeholder line, the lines between
\* them, each with its line break, the escaped content of a block
RECURSIVE ExtractFrom(_, _, _, _)
ExtractFrom(lines, pos, text, codeBlocks) ==
    IF pos > Len(lines) THEN [text |-> text, codeBlocks |-> codeBlocks]
    ELSE LET closers == {j \in (pos + 1)..Len(lines) : IsFence(lines[j])}
         IN  IF IsFence(lines[pos]) /\ closers # {}
             THEN LET j == CHOOSE c \in closers : \A d \in closers : c <= d
                      code == Flat([n \in 1..(j - pos - 1) |-> lines[pos + n] \o <<"\n">>])
                  IN  ExtractFrom(lines, j + 1,
                          Append(text, Placeholder(Len(codeBlocks))),
                          Append(codeBlocks,
                                 <<"<pre><code>">> \o EscapeHtml(code) \o <<"</code></pre>">>))
             ELSE ExtractFrom(lines, pos + 1, Append(text, lines[pos]), codeBlocks)

ExtractCodeBlocks(lines) == ExtractFrom(lines, 1, <<>>, <<>>)

\* text.replace(/\n(#{1,6} )/g, '\n\n$1'): a blank line before every heading
\* that follows a line break
SeparateHeadings(text) ==
    Flat([i \in 1..Len(text) |->
            IF i > 1 /\ StartsHeading(text[i]) THEN <<<<>>, text[i]>> ELSE <<text[i]>>])

\* text.split(/\n\n+/) without the blocks that trim to nothing: the runs of
\* lines between blank lines
RECURSIVE SplitBlocks(_, _, _)
SplitBlocks(text, blocks, current) ==
    IF text = <<>> THEN (IF current = <<>> THEN blocks ELSE Append(blocks, current))
    ELSE IF Head(text) = <<>>
    THEN SplitBlocks(Tail(text), IF current = <<>> THEN blocks ELSE Append(blocks, current), <<>>)
    ELSE SplitBlocks(Tail(text), blocks, Append(current, Head(text)))

RECURSIVE SplitOn(_, _)
SplitOn(s, c) ==
    LET hits == {i \in 1..Len(s) : s[i] = c}
    IN  IF hits = {} THEN <<s>>
        ELSE LET i == CHOOSE h \in hits : \A k \in hits : h <= k
             IN  <<SubSeq(s, 1, i - 1)>> \o SplitOn(SubSeq(s, i + 1, Len(s)), c)

\* parseRow of renderTable
ParseRow(line) ==
    LET t == Trim(line)
        a == IF StartsWith(t, Bar) THEN Tail(t) ELSE t
        b == IF EndsWith(a, Bar) THEN SubSeq(a, 1, Len(a) - 1) ELSE a
        cells == SplitOn(b, "|")
    IN  [i \in 1..Len(cells) |-> Trim(cells[i])]

\* renderTable
RenderTable(lines) ==
    LET headers == ParseRow(lines[1])
        rows == SelectSeq(SubSeq(lines, 3, Len(lines)), LAMBDA l : StartsWith(Trim(l), Bar))
        cell(r, i) == IF i <= Len(ParseRow(r)) THEN ParseRow(r)[i] ELSE <<>>
    IN  <<"<table><thead><tr>">>
        \o Flat([i \in 1..Len(headers) |-> <<"<th>">> \o InlineFormat(headers[i]) \o <<"</th>">>])
        \o <<"</tr></thead><tbody>">>
        \o Flat([n \in 1..Len(rows) |->
              <<"<tr>">>
              \o Flat([i \in 1..Len(headers) |->
                    <<"<td>">> \o InlineFormat(cell(rows[n], i)) \o <<"</td>">>])
              \o <<"</tr>">>])
        \o <<"</tbody></table>">>

\* `<p>${inlineFormat(lines.replace(/\n/g, '<br>'))}</p>`
Paragraph(lines) ==
    <<"<p>">>
    \o Join([i \in 1..Len(lines) |-> InlineFormat(lines[i])], <<"<br>">>)
    \o <<"</p>">>

\* The body of the loop over the blocks: what it pushes to html.
RenderBlock(block, codeBlocks) ==
    \* the block is one placeholder
    IF Len(block) = 1 /\ PlaceholderAt(block[1], 1) /\ Len(block[1]) = 5
    THEN <<codeBlocks[DigitValue(block[1][4]) + 1]>>
    \* heading, then the rest of the block as a paragraph
    ELSE IF IsHeading(block[1])
    THEN <<<<"<h", Digit(IF HashCount(block[1]) < 4 THEN HashCount(block[1]) ELSE 4), ">">>
           \o InlineFormat(SubSeq(block[1], HashCount(block[1]) + 2, Len(block[1])))
           \o <<"</h", Digit(IF HashCount(block[1]) < 4 THEN HashCount(block[1]) ELSE 4), ">">>>>
         \o (IF Len(block) > 1 THEN <<Paragraph(Tail(block))>> ELSE <<>>)
    \* table
    ELSE IF Len(block) >= 2 /\ IsSeparatorRow(Trim(block[2]))
    THEN <<RenderTable(block)>>
    \* unordered list: the lines that are bullets
    ELSE IF IsBullet(block[1])
    THEN LET items == SelectSeq(block, LAMBDA l : IsBullet(Trim(l)))
         IN  << <<"<ul>">>
                \o Flat([i \in 1..Len(items) |->
                      <<"<li>">>
                      \o InlineFormat(SubSeq(Trim(items[i]), 3, Len(Trim(items[i]))))
                      \o <<"</li>">>])
                \o <<"</ul>">> >>
    ELSE <<Paragraph(block)>>

\* result.replace(/\x00CB(\d+)\x00/g, (_, idx) => codeBlocks[parseInt(idx)] || '')
RECURSIVE ReplaceRemaining(_, _)
ReplaceRemaining(result, codeBlocks) ==
    IF result = <<>> THEN <<>>
    ELSE IF PlaceholderAt(result, 1)
    THEN (IF DigitValue(result[4]) < Len(codeBlocks)
          THEN codeBlocks[DigitValue(result[4]) + 1] ELSE <<>>)
         \o ReplaceRemaining(SubSeq(result, 6, Len(result)), codeBlocks)
    ELSE <<Head(result)>> \o ReplaceRemaining(Tail(result), codeBlocks)

\* renderMarkdown(text); codeBlocks is its local array, kept for the properties
RenderMarkdown(lines) ==
    LET ex == ExtractCodeBlocks(lines)
        blocks == SplitBlocks(SeparateHeadings(ex.text), <<>>, <<>>)
        html == Flat([b \in 1..Len(blocks) |-> RenderBlock(blocks[b], ex.codeBlocks)])
    IN  [html |-> ReplaceRemaining(Join(html, <<"\n">>), ex.codeBlocks),
         codeBlocks |-> ex.codeBlocks]

\* the lines of the texts drawn for renderMarkdown
MdText == <<"a", "<", "b">>
MdBullet == <<"-", " ", "x">>
MdHeading == <<"#", "#", " ", "h">>
MdRow == <<"|", "c", "|">>
MdSeparator == <<"|", "-", "|">>
MdLines == {MdText, MdBullet, MdHeading, <<>>, Backticks, MdRow, MdSeparator}
MdTexts == UNION {[1..n -> MdLines] : n \in 0..MaxMdLines}

MdInit ==
    /\ metaFiles = <<OtherFile>>
    /\ tableExists = FALSE
    /\ table = <<>>
    /\ indexExists = FALSE
    /\ run = "none"
    /\ pc = "idle"
    /\ force = FALSE
    /\ maxSessions = MaxSessionsOf(NoLimit)
    /\ jsonFiles = <<>>
    /\ embeddedIds = {}
    /\ fileIdx = 1
    /\ processed = 0 /\ skipped = 0 /\ errors = 0
    /\ meta = NullMeta
    /\ jsonlPath = 0
    /\ chunks = <<>>
    /\ chunkIdx = 1
    /\ exitCode = -1
    /\ rowsAtStart = 0
    /\ trace = <<>>
    /\ prev = NoPrev
    /\ faults = 0
    /\ fnIn \in {[kind |-> "md", lines |-> t] : t \in MdTexts}
    /\ fnOut = NoOutput
    /\ fnPc = "in"

\* test-markdown.ts: renderMarkdown(text)
ApplyRenderMarkdown ==
    /\ fnPc = "in" /\ fnIn.kind = "md"
    /\ fnOut' = RenderMarkdown(fnIn.lines)
    /\ fnPc' = "rendered"
    /\ UNCHANGED <<mainVars, fnIn>>

MdNext == ApplyRenderMarkdown

MdSpec == MdInit /\ [][MdNext]_vars

(***************************************************************************)
(* Vocabulary of the properties                                            *)
(***************************************************************************)
\* positions in table of the rows the current run has inserted
RunRowIdx == (rowsAtStart + 1)..Len(table)
\* positions in table of the rows present when the current run started
OldRowIdx == 1..rowsAtStart

HasEv(name) == \E i \in 1..Len(trace) : trace[i].ev = name
HasEvFor(name, sid) == \E i \in 1..Len(trace) : trace[i].ev = name /\ trace[i].sid = sid

SameKey(r1, r2) == r1.session_id = r2.session_id /\ r1.chunk_index = r2.chunk_index

\* the run examined every .json file of the listing
ExaminedAll == fileIdx > Len(jsonFiles)

\* the previous run ended with the tally, without --force
PrevCompleteNoForce == prev.valid /\ prev.exit = 0 /\ ~prev.force

\* events of the session loop body
SessionEvents ==
    {"skip", "metaError", "loadMeta", "parse", "skipEmpty", "summarize",
     "summaryFallback", "embed", "insert", "sessionError"}

\* events that touch a session beyond the skip decision
WorkEvents == {"loadMeta", "parse", "summarize", "summaryFallback", "embed", "insert"}

(***************************************************************************)
(* C1  Idempotent re-run                                                   *)
(***************************************************************************)
\* C1 (as stated): after one complete run without --force, a second run
\* without --force over the same unchanged files inserts zero new rows.
C1_RerunInsertsNothing ==
    (run = "second" /\ ~force /\ PrevCompleteNoForce) => Len(table) = rowsAtStart

\* C1 (amended): after a complete run without --force that examined every
\* session-meta file (it did not stop at the --limit cap) and counted no
\* error, a second run without --force over the same unchanged files
\* inserts zero new rows.
C1_CleanRerunInsertsNothing ==
    (run = "second" /\ ~force /\ PrevCompleteNoForce
        /\ prev.errors = 0 /\ prev.examinedAll)
    => Len(table) = rowsAtStart

\* a second run without --force has ended after skipping two sessions the
\* clean first run had indexed
C1_Witness ==
    /\ run = "second" /\ ~force /\ PrevCompleteNoForce
    /\ prev.errors = 0 /\ prev.examinedAll
    /\ pc = "done" /\ skipped = 2 /\ rowsAtStart >= 2
    /\ \A k \in 1..Len(jsonFiles) : ~StartsWith(SessionIdOf(jsonFiles[k].name), AgentPrefix)

(***************************************************************************)
(* C2  At most one row per (session_id, chunk_index) per run               *)
(***************************************************************************)
\* C2: within one run every session is taken up at most once, so the rows
\* the run inserts have pairwise different (session_id, chunk_index); the
\* store itself accepts a row whose key is already present.
C2_OneRowPerKeyPerRun ==
    /\ \A i, j \in RunRowIdx : (i # j) => ~SameKey(table[i], table[j])
    /\ LET taken == {i \in 1..Len(trace) : trace[i].ev \in {"skip", "metaError", "loadMeta"}}
       IN  \A i, j \in taken : (i # j) => trace[i].sid # trace[j].sid

\* a forced run has inserted chunks 0 and 1 of a session whose chunks 0 and
\* 1 were already stored
C2_Witness ==
    /\ Len(table) >= rowsAtStart + 2
    /\ \E i, j \in RunRowIdx :
          /\ table[i].session_id = table[j].session_id
          /\ table[i].chunk_index = 0 /\ table[j].chunk_index = 1
          /\ \E k \in OldRowIdx : SameKey(table[k], table[j])

(***************************************************************************)
(* C3  Forced re-run duplicates                                            *)
(***************************************************************************)
\* C3 (as stated): after a second run with --force over the same files the
\* store holds two rows for every (session_id, chunk_index) the first run
\* inserted.
C3_ForceDuplicatesAll ==
    (run = "second" /\ force /\ pc = "done")
    => \A i \in OldRowIdx :
          Cardinality({j \in 1..Len(table) : SameKey(table[j], table[i])}) = 2

\* C3 (amended): a second run with --force that examines every file (it
\* does not stop at the --limit cap) and counts no error ignores the
\* already-indexed check and inserts every (session_id, chunk_index) of the
\* first run once more, so the store then holds two rows for each.
C3_CleanForceDuplicatesAll ==
    (run = "second" /\ force /\ pc = "done" /\ errors = 0 /\ ExaminedAll)
    => /\ embeddedIds = {}
       /\ \A i \in OldRowIdx :
             /\ Cardinality({j \in RunRowIdx : SameKey(table[j], table[i])}) = 1
             /\ Cardinality({j \in 1..Len(table) : SameKey(table[j], table[i])}) = 2

\* a clean forced second run has ended over a store that held three rows
C3_Witness ==
    /\ run = "second" /\ force /\ pc = "done" /\ errors = 0 /\ ExaminedAll
    /\ rowsAtStart = 3 /\ Len(table) = 6

(***************************************************************************)
(* C4  Preflight failure is fatal                                          *)
(***************************************************************************)
\* C4: when the embedding-service health check fails the run ends at once
\* with exit status 1: no session is examined, processed stays 0, no
\* summarizer or embedder call is made, no row is inserted and the tally
\* is never printed.
C4_PreflightFatal ==
    HasEv("ollamaError")
    => /\ pc = "fatal" /\ exitCode = 1
       /\ processed = 0 /\ skipped = 0 /\ errors = 0
       /\ fileIdx = 1
       /\ Len(table) = rowsAtStart
       /\ \A i \in 1..Len(trace) : trace[i].ev \notin SessionEvents \cup {"done", "count"}
       /\ trace[Len(trace)].ev = "ollamaError"

\* the health check failed in a run that had a session to index
C4_Witness ==
    /\ HasEv("ollamaError")
    /\ Len(jsonFiles) = 2
    /\ embeddedIds = {}
    /\ \A k \in 1..Len(jsonFiles) :
          /\ ~StartsWith(SessionIdOf(jsonFiles[k].name), AgentPrefix)
          /\ jsonFiles[k].metaKind = "object"

(***************************************************************************)
(* C5  Per-session failures are counted and do not stop the loop           *)
(***************************************************************************)
\* the step that is about to happen fails for the session being examined:
\* its meta file cannot be read or parsed, its log cannot be read, or a
\* meta-only or chunk step ends without inserting
C5_FailureStep ==
    \/ /\ pc = "loop" /\ fileIdx <= Len(jsonFiles)
       /\ ~CapReached(processed, maxSessions)
       /\ CurSessionId \notin embeddedIds
       /\ ~StartsWith(CurSessionId, AgentPrefix)
       /\ CurFile.metaKind \in {"unreadable", "badjson"}
    \/ pc = "metaOnly" /\ table' = table
    \/ /\ pc = "jsonl" /\ ~meta.isNull
       /\ \/ ~ProjectLogs[jsonlPath].readable
          \/ ParseThrows(ProjectLogs[jsonlPath].lines)
    \/ pc = "chunk" /\ table' = table

C5_CountedAndContinues ==
    /\ errors' = errors + 1
    /\ processed' = processed /\ skipped' = skipped
    /\ table' = table
    /\ pc' = "loop" /\ fileIdx' = fileIdx + 1
    /\ exitCode' = exitCode

C6_PreflightPassedNeverFatal ==
    HasEv("preflight") => (pc # "fatal" /\ exitCode # 1)

(***************************************************************************)
(* C7  Phase ordering                                                      *)
(***************************************************************************)
\* The place of an event in a run: 4 is the session loop.
PhaseOf ==
    [readdir |-> 0, ensureTable |-> 1, embeddedIds |-> 2, preflight |-> 3,
     skip |-> 4, metaError |-> 4, loadMeta |-> 4, parse |-> 4, skipEmpty |-> 4,
     summarize |-> 4, summaryFallback |-> 4, embed |-> 4, insert |-> 4,
     sessionError |-> 4,
     loopEnd |-> 5, break |-> 5, count |-> 6, drop |-> 7, create |-> 8,
     indexNote |-> 9, done |-> 10, exit1 |-> 11, ollamaError |-> 11]

Phase(e) == PhaseOf[e.ev]

\* C7: in one run schema creation completes before the preflight, the
\* preflight before any session is skipped or processed, the index rebuild
\* step comes only after the last session was examined, Done follows the
\* rebuild step, and no phase is entered twice: outside the session loop
\* every call of a run belongs to a later phase than the call before it.
C7_PhaseOrder ==
    LET ph == <<>> \o [i \in 1..Len(trace) |-> Phase(trace[i])] IN
    /\ \A i \in 1..(Len(trace) - 1) :
          ph[i] < ph[i + 1] \/ (ph[i] = 4 /\ ph[i + 1] = 4)
    /\ \A j \in 1..Len(trace) :
          /\ ph[j] = 3 => (j = 4 /\ ph[2] = 1)
          /\ ph[j] = 4 => (j > 4 /\ ph[4] = 3)
          /\ ph[j] \in 6..9 => (j > 5 /\ ph[j - 1] \in 5..8)
          /\ ph[j] = 10 => (j > 6 /\ ph[j - 1] \in 6..9)

\* a run went through every phase: a skip, an insert, the index rebuilt,
\* the tally
C7_Witness ==
    /\ pc = "done"
    /\ HasEv("skip") /\ HasEv("insert") /\ HasEv("drop") /\ HasEv("create")

(***************************************************************************)
(* C8  Skip rule                                                           *)
(***************************************************************************)
\* the session has a row that was stored before the current run started
C8_IndexedAtStart(sid) == \E i \in OldRowIdx : table[i].session_id = sid

C8_MustSkip(sid) == StartsWith(sid, AgentPrefix) \/ (~force /\ C8_IndexedAtStart(sid))

C8_NeverWorkedOn ==
    /\ \A i \in RunRowIdx : ~C8_MustSkip(table[i].session_id)
    /\ \A i \in 1..Len(trace) : trace[i].ev \in WorkEvents => ~C8_MustSkip(trace[i].sid)

C8_CountedAsSkipped ==
    (/\ pc = "loop" /\ fileIdx <= Len(jsonFiles)
     /\ ~CapReached(processed, maxSessions)
     /\ C8_MustSkip(CurSessionId))
    => /\ skipped' = skipped + 1
       /\ processed' = processed /\ errors' = errors
       /\ table' = table
       /\ pc' = "loop" /\ fileIdx' = fileIdx + 1

\* C8: a candidate session that already has a record at run start (without
\* --force), or whose identifier starts with "agent-" (with or without
\* --force), is counted as skipped and is never parsed, summarized,
\* embedded or inserted in that run.
C8_SkipRule == []C8_NeverWorkedOn /\ [][C8_CountedAsSkipped]_vars

\* a second run without --force skipped an indexed session and an agent
\* sub-session
C8_Witness ==
    /\ run = "second" /\ ~force /\ skipped = 2 /\ pc = "done"
    /\ \E i, j \in 1..Len(trace) :
          /\ trace[i].ev = "skip" /\ StartsWith(trace[i].sid, AgentPrefix)
          /\ trace[j].ev = "skip" /\ ~StartsWith(trace[j].sid, AgentPrefix)
          /\ C8_IndexedAtStart(trace[j].sid)

(***************************************************************************)
(* C9  Every non-skipped session with metadata contributes a record        *)
(***************************************************************************)
\* the k-th file was examined and neither skipped as indexed or as an agent
\* sub-session, and its metadata is an object
C9_Taken(k) ==
    /\ k < fileIdx
    /\ SessionIdOf(jsonFiles[k].name) \notin embeddedIds
    /\ ~StartsWith(SessionIdOf(jsonFiles[k].name), AgentPrefix)
    /\ jsonFiles[k].metaKind = "object"

C9_HasLog(sid) == \E i \in 1..Len(ProjectLogs) : ProjectLogs[i].id = sid

C9_RunRowsOf(sid) == {i \in RunRowIdx : table[i].session_id = sid}

\* C9 (as stated): when the run ends every session that was enumerated, not
\* skipped as indexed or as an agent sub-session, and whose metadata exists
\* has at least one record, a session without a raw log exactly one
\* synthetic record with chunk_index 0.
C9_EveryTakenSessionHasRecord ==
    pc = "done"
    => \A k \in 1..Len(jsonFiles) :
          C9_Taken(k)
          => LET sid == SessionIdOf(jsonFiles[k].name) IN
             /\ \E i \in 1..Len(table) : table[i].session_id = sid
             /\ ~C9_HasLog(sid)
                => \E i \in C9_RunRowsOf(sid) :
                      /\ C9_RunRowsOf(sid) = {i}
                      /\ table[i].chunk_index = 0

\* the processing of the session ended in the error tally, or its log
\* parsed to zero messages
C9_FailedOrEmpty(sid) == HasEvFor("sessionError", sid) \/ HasEvFor("skipEmpty", sid)

\* C9 (amended): when the run ends every session that was enumerated, not
\* skipped as indexed or as an agent sub-session, whose metadata exists,
\* whose processing did not fail and whose log did not parse to zero
\* messages has at least one record; a session without a raw log has
\* exactly one record of this run, the synthetic one with chunk_index 0
\* built from its metadata.
C9_TakenSessionHasRecordUnlessFailedOrEmpty ==
    pc = "done"
    => \A k \in 1..Len(jsonFiles) :
          (C9_Taken(k) /\ ~C9_FailedOrEmpty(SessionIdOf(jsonFiles[k].name)))
          => LET sid == SessionIdOf(jsonFiles[k].name) IN
             /\ C9_RunRowsOf(sid) # {}
             /\ ~C9_HasLog(sid)
                => \E i \in C9_RunRowsOf(sid) :
                      /\ C9_RunRowsOf(sid) = {i}
                      /\ table[i].chunk_index = 0
                      /\ table[i].summary = MetaSummaryText(jsonFiles[k].meta)
                      /\ table[i].project = jsonFiles[k].meta.project_path

\* a run ended having indexed a session with a raw log and a session
\* without one
C9_Witness ==
    /\ pc = "done" /\ processed = 2 /\ Len(jsonFiles) = 2
    /\ C9_Taken(1) /\ C9_Taken(2)
    /\ C9_HasLog(SessionIdOf(jsonFiles[1].name))
    /\ ~C9_HasLog(SessionIdOf(jsonFiles[2].name))

(***************************************************************************)
(* C10  Processing cap                                                     *)
(***************************************************************************)
C10_Bounded == ~maxSessions.inf => processed <= maxSessions.n

\* once the loop has stopped at the cap no session is touched any more and
\* the run is on its way to the tally or has printed it
C10_AfterBreak ==
    HasEv("break")
    => /\ pc \in {"index", "drop", "create", "tally", "done"}
       /\ exitCode \in {-1, 0}
       /\ \A i, j \in 1..Len(trace) :
             (trace[i].ev = "break" /\ i < j)
             => trace[j].ev \in {"count", "drop", "create", "indexNote", "done"}

C10_BreakStep ==
    (/\ pc = "loop" /\ fileIdx <= Len(jsonFiles)
     /\ ~maxSessions.inf /\ processed >= maxSessions.n)
    => /\ pc' = "index"
       /\ processed' = processed /\ skipped' = skipped /\ errors' = errors
       /\ table' = table /\ fileIdx' = fileIdx
       /\ exitCode' = exitCode

FailureIdx == {i \in 1..Len(trace) : trace[i].ev = "sessionError"}

\* every insertChunk call directly follows the embedText call that
\* returned the vector of the same chunk, and the stored row carries it
C11_InsertFollowsEmbed ==
    /\ \A j \in 1..Len(trace) :
          trace[j].ev = "insert" =>
             /\ j > 1
             /\ trace[j - 1] = Ev("embed", trace[j].sid, trace[j].idx)
    /\ \A i \in RunRowIdx : table[i].embedding_vec = ServiceEmbedding

\* once a session's processing failed, the run makes no further call for it
C11_FailureEndsSession ==
    \A i \in FailureIdx : \A j \in (i + 1)..Len(trace) : trace[j].sid # trace[i].sid

\* C11: embedText raises on a non-success status and on a response without
\* the vector field; no row is stored without its embedding; and when
\* embedText fails for a chunk (or the metadata-only chunk) insertChunk is
\* not called for it and no later chunk of that session is processed in
\* the run.
C11_NoRecordWithoutEmbedding ==
    /\ EmbedTextThrows("status") /\ EmbedTextThrows("nofield")
    /\ C11_InsertFollowsEmbed
    /\ C11_FailureEndsSession

\* the run is over; embedText failed for chunk 0 of the two-chunk session
\* s1, which got no row
C11_Witness ==
    /\ pc = "done"
    /\ \E j \in 1..(Len(trace) - 1) :
          /\ trace[j] = Ev("summarize", Id_s1, 0)
          /\ trace[j + 1].ev = "sessionError"
    /\ \A i \in RunRowIdx : table[i].session_id # Id_s1

(***************************************************************************)
(* C12  Summarization failure falls back, never raises                     *)
(***************************************************************************)
\* positions of the trace where summarizeChunk took its catch branch
FallbackIdx == {i \in 1..Len(trace) : trace[i].ev = "summaryFallback"}

\* the row written by the insertChunk call at position j of the trace
RowOfInsert(j) ==
    table[rowsAtStart + Cardinality({i \in 1..j : trace[i].ev = "insert"})]

\* C12: summarizeChunk never raises. When the summarization service
\* fails, the summary is exactly the first 200 characters of the chunk
\* text and the chunk goes on to embedText with it: the run is not ended,
\* the next call is the embedding of the same chunk, and the row then
\* inserted carries the fallback summary (only a failure of embedText or
\* insertChunk themselves, counted as a session error, keeps the row out).
C12_SummaryFallback ==
    \A j \in FallbackIdx :
       /\ j > 1 /\ trace[j - 1] = Ev("summarize", trace[j].sid, trace[j].idx)
       /\ j < Len(trace)
       /\ \/ trace[j + 1] = Ev("sessionError", trace[j].sid, 0)
          \/ /\ trace[j + 1] = Ev("embed", trace[j].sid, trace[j].idx)
             /\ j + 1 < Len(trace)
             /\ \/ trace[j + 2] = Ev("sessionError", trace[j].sid, 0)
                \/ /\ trace[j + 2] = Ev("insert", trace[j].sid, trace[j].idx)
                   /\ RowOfInsert(j + 2).summary =
                         Slice(RowOfInsert(j + 2).raw_excerpt, FALLBACK_SUMMARY_CAP)
                   /\ RowOfInsert(j + 2).chunk_index = trace[j].idx

\* the summarizer failed on a chunk whose text is longer than 200
\* characters; the chunk was embedded and inserted with the cut text
C12_Witness ==
    \E j \in FallbackIdx :
       /\ j + 2 <= Len(trace)
       /\ trace[j + 2].ev = "insert"
       /\ Len(RowOfInsert(j + 2).raw_excerpt) > FALLBACK_SUMMARY_CAP
       /\ Len(RowOfInsert(j + 2).summary) = FALLBACK_SUMMARY_CAP
       /\ pc = "done"

(***************************************************************************)
(* C13  One record per chunk, same project and token count                 *)
(***************************************************************************)
\* chunkSession applied to the parse of each readable raw log
ChunksOfLog ==
    [p \in 1..Len(ProjectLogs) |->
        IF ProjectLogs[p].readable /\ ~ParseThrows(ProjectLogs[p].lines)
        THEN ChunkSession(ParseSessionJsonl(ProjectLogs[p].lines))
        ELSE <<>>]

\* the rows the current run stored for a session, in insertion order
RunRowsFor(sid) ==
    SelectSeq(SubSeq(table, rowsAtStart + 1, Len(table)),
              LAMBDA r : r.session_id = sid)

\* positions of the trace where a raw log was parsed into chunks
ParsedIdx == {i \in 1..Len(trace) : trace[i].ev = "parse"}

\* the place in jsonFiles of the session-meta file of a session
FileOf(sid) == CHOOSE k \in 1..Len(jsonFiles) : SessionIdOf(jsonFiles[k].name) = sid

\* the session parsed at position i of the trace went through the whole
\* chunk loop without any failure
C13_ProcessedCleanly(i) ==
    /\ ~(pc = "chunk" /\ \A j \in ParsedIdx : j <= i)
    /\ ~HasEvFor("sessionError", trace[i].sid)

\* the step in which the chunk loop of the current session ends without
\* any failure
C13_SessionCompletes == pc = "chunk" /\ pc' = "loop" /\ processed' = processed + 1

\* the rows the run has stored for the current session after the step are
\* the chunks of its log, one by one
C13_RowsAreChunks ==
    LET sid  == CurSessionId
        m    == CurFile.meta
        cs   == ChunksOfLog[FindSessionJsonl(sid)]
        rows == SelectSeq(SubSeq(table', rowsAtStart + 1, Len(table')),
                          LAMBDA r : r.session_id = sid)
    IN  /\ Len(rows) = Len(cs)
        /\ \A i \in 1..Len(rows) :
              /\ rows[i].chunk_index = i - 1
              /\ rows[i].chunk_index = cs[i].chunkIndex
              /\ rows[i].raw_excerpt = Slice(cs[i].text, RAW_EXCERPT_CAP)
              /\ rows[i].tools_used = cs[i].toolsUsed
              /\ rows[i].project = m.project_path
              /\ rows[i].token_count = m.input_tokens + m.output_tokens

\* C13: for a session with a raw log that is processed without any
\* failure, the run inserts exactly one record per chunk produced by
\* chunkSession, in chunk order with chunk_index 0..k-1, and all records
\* carry the session's project and the token count input tokens + output
\* tokens of its metadata.
C13_OneRecordPerChunk == [][C13_SessionCompletes => C13_RowsAreChunks]_vars

\* the six-turn session s1 was processed without failure and has its two
\* records, with a token count that has both parts
C13_Witness ==
    /\ pc = "done"
    /\ \E p \in ParsedIdx :
          /\ C13_ProcessedCleanly(p)
          /\ Len(RunRowsFor(trace[p].sid)) = 2
          /\ jsonFiles[FileOf(trace[p].sid)].meta.input_tokens > 0
          /\ jsonFiles[FileOf(trace[p].sid)].meta.output_tokens > 0

(***************************************************************************)
(* C14  Rows are never rolled back, updated or deleted                     *)
(***************************************************************************)
\* C14: no step of the pipeline, in this run or a later one, removes or
\* changes a stored row: session_chunks only grows at its end, so the rows
\* inserted for chunks 0..k-1 of a session that fails at chunk k, and all
\* rows of other sessions, stay as they were.
C14_RowsOnlyAppended ==
    [][/\ Len(table') >= Len(table)
       /\ SubSeq(table', 1, Len(table)) = table]_vars

\* s1 failed at its second chunk in the first run; the row of its first
\* chunk is still there when the second run has ended
C14_Witness ==
    /\ run = "second" /\ pc = "done"
    /\ prev.errors = 1
    /\ \E i \in OldRowIdx : table[i].session_id = Id_s1 /\ table[i].chunk_index = 0
    /\ \A i \in 1..Len(table) : table[i].session_id = Id_s1 => table[i].chunk_index = 0

(***************************************************************************)
(* Vocabulary of the properties of the parsers and the chunker             *)
(***************************************************************************)
\* the line is an event the parsers turn into a message of that role
IsEvent(line, role) ==
    line.kind = "json" /\ line.type \in {"user", "assistant"} /\ line.role = role

\* places <<line, item>> of the items of a log
ItemPos(lines) ==
    UNION {{<<p, a>> : a \in 1..Len(lines[p].items)} : p \in 1..Len(lines)}

IsUse(lines, u) ==
    /\ IsEvent(lines[u[1]], "assistant") /\ lines[u[1]].isArray
    /\ lines[u[1]].items[u[2]].type = "tool_use"

IsResultItem(lines, r) ==
    /\ IsEvent(lines[r[1]], "user") /\ lines[r[1]].isArray
    /\ lines[r[1]].items[r[2]].type = "tool_result"

ItemAt(lines, x) == lines[x[1]].items[x[2]]

\* document order of item places
Earlier(x, y) == x[1] < y[1] \/ (x[1] = y[1] /\ x[2] < y[2])

\* the ToolInvocation the parse created for the tool_use item at place u
Invocation(messages, lines, u) ==
    messages[Cardinality({p \in 1..u[1] :
                 IsEvent(lines[p], "user") \/ IsEvent(lines[p], "assistant")})]
       .toolCalls[Cardinality({a \in 1..u[2] : lines[u[1]].items[a].type = "tool_use"})]

\* a tool_use or tool_result item with the identifier id lies strictly
\* between the places u and r
IdBetween(lines, id, u, r) ==
    \E x \in ItemPos(lines) :
       /\ Earlier(u, x) /\ Earlier(x, r)
       /\ \/ IsUse(lines, x) /\ ItemAt(lines, x).id = id
          \/ IsResultItem(lines, x) /\ ItemAt(lines, x).tool_use_id = id

ToolsParsed == fnPc = "toolsParsed" /\ ~fnOut.threw

(***************************************************************************)
(* C15  Tool-result correlation                                            *)
(***************************************************************************)
C15_Resolved(u, r) ==
    /\ Invocation(fnOut.messages, fnIn.log, u).result =
          Slice(ItemAt(fnIn.log, r).content, TOOL_RESULT_CAP)
    /\ Invocation(fnOut.messages, fnIn.log, u).isError = ItemAt(fnIn.log, r).is_error

C15_Pair(u, r) ==
    /\ IsUse(fnIn.log, u) /\ IsResultItem(fnIn.log, r)
    /\ u[1] < r[1]
    /\ ItemAt(fnIn.log, u).id = ItemAt(fnIn.log, r).tool_use_id

\* C15 (as stated): for any log, if an assistant event contains a tool_use
\* item with identifier i and a later user event contains a tool_result
\* item with tool_use_id i, the ToolInvocation created for that tool_use
\* ends the parse with result equal to the first 500 characters of the
\* result content and isError equal to the result's is_error flag.
C15_AnyLaterResultResolves ==
    ToolsParsed =>
       \A u, r \in ItemPos(fnIn.log) : C15_Pair(u, r) => C15_Resolved(u, r)

\* C15 (amended): the same for a tool_use and a later tool_result between
\* which the log has no other tool_use item and no other tool_result item
\* with the identifier i.
C15_NextResultResolves ==
    ToolsParsed =>
       \A u, r \in ItemPos(fnIn.log) :
          (C15_Pair(u, r) /\ ~IdBetween(fnIn.log, ItemAt(fnIn.log, u).id, u, r))
          => C15_Resolved(u, r)

\* a tool_use was resolved by a later result of more than 500 characters
\* that carries the error flag
C15_Witness ==
    /\ ToolsParsed
    /\ \E u, r \in ItemPos(fnIn.log) :
          /\ C15_Pair(u, r)
          /\ ~IdBetween(fnIn.log, ItemAt(fnIn.log, u).id, u, r)
          /\ Len(ItemAt(fnIn.log, r).content) > TOOL_RESULT_CAP
          /\ Len(Invocation(fnOut.messages, fnIn.log, u).result) = TOOL_RESULT_CAP
          /\ Invocation(fnOut.messages, fnIn.log, u).isError

(***************************************************************************)
(* C16  At-most-once resolution                                            *)
(***************************************************************************)
\* the identifier of the tool_result item at place r is pending there: an
\* earlier tool_use carries it and no tool_result with it lies in between
C16_Pending(lines, r) ==
    \E u \in ItemPos(lines) :
       /\ IsUse(lines, u) /\ Earlier(u, r)
       /\ ItemAt(lines, u).id = ItemAt(lines, r).tool_use_id
       /\ \A x \in ItemPos(lines) :
             (Earlier(u, x) /\ Earlier(x, r) /\ IsResultItem(lines, x))
             => ItemAt(lines, x).tool_use_id # ItemAt(lines, u).id

\* the last line of the log is a user event none of whose tool_result
\* items has a pending identifier
C16_LastLineUnmatched ==
    /\ fnIn.log # <<>>
    /\ IsEvent(fnIn.log[Len(fnIn.log)], "user")
    /\ fnIn.log[Len(fnIn.log)].isArray
    /\ \A r \in ItemPos(fnIn.log) :
          (r[1] = Len(fnIn.log) /\ IsResultItem(fnIn.log, r)) => ~C16_Pending(fnIn.log, r)

\* the tool_use item at place u has no later tool_result with its identifier
C16_NeverAnswered(u) ==
    /\ IsUse(fnIn.log, u)
    /\ \A r \in ItemPos(fnIn.log) :
          (IsResultItem(fnIn.log, r) /\ Earlier(u, r))
          => ItemAt(fnIn.log, r).tool_use_id # ItemAt(fnIn.log, u).id

\* C16: a tool_result item whose tool_use_id is not pending (no earlier
\* tool_use had it, or an earlier result already resolved it) changes no
\* ToolInvocation: the messages parsed before its line are the same after
\* it; a tool_use with no later result stays unresolved; and neither makes
\* the parser raise (it raises on no log of these lines but one that holds
\* the JSON text null).
C16_AtMostOnce ==
    fnPc = "toolsParsed" =>
       /\ fnOut.threw => \E p \in 1..Len(fnIn.log) : fnIn.log[p].kind = "null"
       /\ (~fnOut.threw /\ C16_LastLineUnmatched) =>
             SubSeq(fnOut.messages, 1, Len(fnOut.messages) - 1) =
                ToolsParseSessionJsonl(SubSeq(fnIn.log, 1, Len(fnIn.log) - 1))
       /\ ~fnOut.threw =>
             \A u \in ItemPos(fnIn.log) :
                C16_NeverAnswered(u) =>
                   /\ Invocation(fnOut.messages, fnIn.log, u).result = <<>>
                   /\ ~Invocation(fnOut.messages, fnIn.log, u).isError

\* a tool_use was resolved by a first result and a second result with the
\* same identifier and another content came last
C16_Witness ==
    /\ ToolsParsed /\ Len(fnIn.log) = 3
    /\ C16_LastLineUnmatched
    /\ \E u, r \in ItemPos(fnIn.log) :
          /\ C15_Pair(u, r) /\ r[1] = 2
          /\ ItemAt(fnIn.log, <<3, 1>>).type = "tool_result"
          /\ ItemAt(fnIn.log, <<3, 1>>).tool_use_id = ItemAt(fnIn.log, u).id
          /\ ItemAt(fnIn.log, <<3, 1>>).content # ItemAt(fnIn.log, r).content
          /\ Invocation(fnOut.messages, fnIn.log, u).result =
                Slice(ItemAt(fnIn.log, r).content, TOOL_RESULT_CAP)

(***************************************************************************)
(* C17  The parsers never fail on an individual line                       *)
(***************************************************************************)
\* the lines the claim says are skipped: blank, not valid JSON, valid JSON
\* whose top-level type is neither user nor assistant, or without a role
C17_Skippable(line) ==
    \/ line.kind \in {"blank", "garbage"}
    \/ line.type \notin {"user", "assistant"}
    \/ line.role = ""

C17_Kept(lines) == SelectSeq(lines, LAMBDA line : ~C17_Skippable(line))

\* C17: for any log, neither parser fails, every skippable line is
\* skipped, and the result equals the parse of the same log with those
\* lines removed.
C17_ParserNeverFails ==
    /\ fnPc = "parsed" =>
          /\ ~fnOut.threw
          /\ fnOut.messages = ParseSessionJsonl(C17_Kept(fnIn.log))
    /\ fnPc = "toolsParsed" =>
          /\ ~fnOut.threw
          /\ fnOut.messages = ToolsParseSessionJsonl(C17_Kept(fnIn.log))

(***************************************************************************)
(* C18  Turns and chunks partition the message sequence                    *)
(***************************************************************************)
Chunked == fnPc = "chunked"

ChunkMessages(cs) == Flat([i \in 1..Len(cs) |-> cs[i].messages])

\* C18: concatenating the turns built by chunkSession, in order,
\* reproduces the message sequence exactly, and so does concatenating the
\* messages of all chunks in chunk-index order.
C18_TurnPartition ==
    Chunked =>
       /\ Flat(fnOut.turns) = fnIn.msgs
       /\ \A i \in 1..Len(fnOut.turns) : fnOut.turns[i] # <<>>
       /\ \A i \in 1..Len(fnOut.chunks) : fnOut.chunks[i].chunkIndex = i - 1
       /\ ChunkMessages(fnOut.chunks) = fnIn.msgs

\* twelve messages in several turns of more than one message, cut into
\* more than one chunk
C18_Witness ==
    /\ Chunked
    /\ Len(fnIn.msgs) = 12
    /\ Len(fnOut.chunks) = 2
    /\ \E i \in 1..Len(fnOut.turns) : Len(fnOut.turns[i]) > 1

(***************************************************************************)
(* C19  Turns start with a user message                                    *)
(***************************************************************************)
UserCount(messages) == Cardinality({i \in 1..Len(messages) : messages[i].role = "user"})

C19_TurnsStartWithUser ==
    /\ \A i \in 1..Len(fnOut.turns) :
          /\ fnOut.turns[i][1].role = "user"
          /\ \A j \in 2..Len(fnOut.turns[i]) : fnOut.turns[i][j].role # "user"
    /\ Len(fnOut.turns) = UserCount(fnIn.msgs)

\* C19 (as stated): for any parsed message sequence, every turn built by
\* chunkSession starts with a user message and contains no other user
\* message, so the number of turns equals the number of user messages.
C19_EveryTurnStartsWithUser == Chunked => C19_TurnsStartWithUser

\* C19 (amended): the same for any parsed message sequence that is empty
\* or starts with a user message.
C19_EveryTurnStartsWithUserAfterUserStart ==
    (Chunked /\ (fnIn.msgs = <<>> \/ fnIn.msgs[1].role = "user"))
    => C19_TurnsStartWithUser

\* a sequence that starts with a user message and has six turns, one of
\* them with several assistant messages
C19_Witness ==
    /\ Chunked
    /\ fnIn.msgs # <<>> /\ fnIn.msgs[1].role = "user"
    /\ Len(fnOut.turns) = 6
    /\ UserCount(fnIn.msgs) = 6
    /\ \E i \in 1..Len(fnOut.turns) : Len(fnOut.turns[i]) > 2

(***************************************************************************)
(* C20  Chunk count law                                                    *)
(***************************************************************************)
\* the turns a chunk holds when it is the i-th of the session
C20_TurnsOfChunk(i) ==
    SubSeq(fnOut.turns, CHUNK_SIZE * (i - 1) + 1,
           IF CHUNK_SIZE * i < Len(fnOut.turns) THEN CHUNK_SIZE * i ELSE Len(fnOut.turns))

\* C20: with CHUNK_SIZE = 5 a session of N turns yields exactly one chunk
\* holding all N turns when 1 <= N <= 5 and exactly ceil(N/5) chunks when
\* N > 5, each chunk but possibly the last holding exactly 5 consecutive
\* turns; chunkIndex values are 0..count-1 in turn order; a non-empty
\* session never yields zero chunks.
C20_ChunkCountLaw ==
    Chunked =>
       LET N == Len(fnOut.turns)
           count == Len(fnOut.chunks)
       IN  /\ CHUNK_SIZE = 5
           /\ (1 <= N /\ N <= 5) =>
                 (count = 1 /\ fnOut.chunks[1].messages = Flat(fnOut.turns))
           /\ N > 5 =>
                 /\ count = (N + 4) \div 5
                 /\ \A i \in 1..count :
                       /\ fnOut.chunks[i].messages = Flat(C20_TurnsOfChunk(i))
                       /\ i < count => Len(C20_TurnsOfChunk(i)) = 5
           /\ \A i \in 1..count : fnOut.chunks[i].chunkIndex = i - 1
           /\ fnIn.msgs # <<>> => count >= 1

\* twelve turns: three chunks of 5, 5 and 2 turns
C20_Witness ==
    /\ Chunked
    /\ Len(fnOut.turns) = 12
    /\ Len(fnOut.chunks) = 3
    /\ Len(fnOut.chunks[1].messages) = 5
    /\ Len(fnOut.chunks[3].messages) = 2

(***************************************************************************)
(* C21  Chunk text projection                                              *)
(***************************************************************************)
\* the rendering of one message as the property words it
C21_Line(m) ==
    LET prefix == IF m.role = "user" THEN <<"U", "s", "e", "r", ":", " ">>
                  ELSE <<"A", "s", "s", "i", "s", "t", "a", "n", "t", ":", " ">>
        body == SubSeq(m.content, 1, IF Len(m.content) > 600 THEN 600 ELSE Len(m.content))
        names == Join(m.toolNames, <<",", " ">>)
    IN  IF m.toolNames = <<>> THEN prefix \o body
        ELSE prefix \o body \o <<" ", "[", "T", "o", "o", "l", "s", ":", " ">> \o names \o <<"]">>

C21_Full(ms) == Join([i \in 1..Len(ms) |-> C21_Line(ms[i])], <<"\n">>)

\* C21: the text of a chunk is the newline-joined rendering of its messages
\* (role prefix, first 600 characters of the content, a "[Tools: ...]" suffix
\* only for a message that used tools) cut to its first 3000 characters; it is
\* never longer than 3000 and is a prefix of the full rendering.
C21_TextProjection ==
    fnPc = "formatted" =>
        LET full == C21_Full(fnIn.msgs)
            text == fnOut.text
        IN  /\ Len(text) <= 3000
            /\ Len(text) <= Len(full)
            /\ text = SubSeq(full, 1, Len(text))
            /\ Len(text) = (IF Len(full) > 3000 THEN 3000 ELSE Len(full))

\* C21 witness: a chunk of six messages, long ones with tools among them, whose
\* rendering is longer than 3000 characters and was cut
C21_Witness ==
    /\ fnPc = "formatted"
    /\ Len(fnIn.msgs) = 6
    /\ \E i \in 1..6 : Len(fnIn.msgs[i].content) > 600 /\ fnIn.msgs[i].toolNames # <<>>
    /\ \E i \in 1..6 : fnIn.msgs[i].toolNames = <<>>
    /\ Len(C21_Full(fnIn.msgs)) > 3000
    /\ Len(fnOut.text) = 3000

(***************************************************************************)
(* C22  Index rebuild                                                      *)
(***************************************************************************)
\* the DROP statement of the current run has been issued or is about to be
C22_DropIssued == pc = "drop" \/ HasEv("drop") \/ (HasEv("count") /\ HasEv("indexNote"))
\* the CREATE statement of the current run has been issued or is about to be
C22_CreateIssued == pc = "create" \/ HasEv("create") \/ (HasEv("drop") /\ HasEv("indexNote"))

\* C22: after the session loop the similarity index is dropped and recreated
\* exactly when the count of rows with an embedding is at least 100, also
\* when an index exists already; below 100 no index statement is issued; a
\* failure of the count, the drop or the create is only logged and the run
\* still goes on to its tally.
C22_IndexRebuild ==
    /\ (pc \in {"drop", "create"} \/ HasEv("drop") \/ HasEv("create"))
          => HasEv("count") /\ EmbeddedRowCount >= 100
    /\ (HasEv("count") /\ EmbeddedRowCount >= 100) => C22_DropIssued
    /\ HasEv("drop") => C22_CreateIssued
    /\ (HasEv("drop") /\ ~HasEv("create")) => ~indexExists
    /\ HasEv("create") => indexExists /\ HasEv("drop")
    /\ (HasEv("count") /\ EmbeddedRowCount < 100)
          => /\ pc \in {"tally", "done"}
             /\ ~HasEv("drop") /\ ~HasEv("create") /\ ~HasEv("indexNote")
    /\ HasEv("indexNote") => pc \in {"tally", "done"} /\ exitCode # 1
    /\ pc \in {"index", "drop", "create", "tally"} => exitCode = -1
    /\ pc = "done" => exitCode = 0 /\ (HasEv("count") \/ HasEv("indexNote"))

\* C22 witness: the count found at least 100 rows while an index exists, and
\* the rebuild is dropping it
C22_Witness ==
    /\ run = "second" /\ pc = "drop" /\ indexExists
    /\ HasEv("count") /\ EmbeddedRowCount >= 100

\* C22 witness of the failure branch: the create failed after the drop, the
\* run ended with its tally
C22_FailureWitness ==
    /\ pc = "done" /\ HasEv("drop") /\ HasEv("indexNote") /\ ~indexExists

\* C22 witness of the quiet branch: fewer than 100 rows, no index statement
C22_BelowWitness ==
    /\ pc = "done" /\ HasEv("count") /\ EmbeddedRowCount = 99 /\ ~HasEv("drop")

(***************************************************************************)
(* C23  Query result                                                       *)
(***************************************************************************)
Searched == fnPc = "searched"
\* the call returned a result list
SearchSucceeded == Searched /\ fnOut.out.kind = "payload" /\ fnOut.out.error = ""
\* embedding service and database answer, the table exists
SearchHealthy == Searched /\ fnOut.response = "ok" /\ fnOut.dbOk /\ fnOut.tablePresent
\* the stored row behind the n-th result (chunk_index is the position in the store)
ResultRow(n) == fnIn.store[fnOut.out.results[n].chunk_index]
ResultDistance(n) == CosineDistance(ResultRow(n).embedding_vec, fnIn.vector)

C23_FromStore ==
    \A n \in 1..Len(fnOut.out.results) :
        /\ fnOut.out.results[n].chunk_index \in 1..Len(fnIn.store)
        /\ ResultRow(n).embedding_vec # NullVector
        /\ \A m \in 1..Len(fnOut.out.results) :
              fnOut.out.results[m].chunk_index = fnOut.out.results[n].chunk_index => m = n

C23_Ordered ==
    \A n \in 1..(Len(fnOut.out.results) - 1) : ResultDistance(n) <= ResultDistance(n + 1)

C23_EmptyWitness ==
    /\ SearchHealthy /\ fnIn.store = <<>> /\ fnOut.out.count = 0 /\ fnOut.out.error = ""

\* C23 witness of the limit 0 and of the rounding
C23_DefaultOnZeroWitness ==
    /\ SearchSucceeded /\ fnIn.limit = Limit(0) /\ Len(fnOut.out.results) = 10
    /\ fnOut.out.results[1].similarity * 10 # 10000 - ResultDistance(1)

(***************************************************************************)
(* C24  Query-path failures                                                *)
(***************************************************************************)
\* C24: every failure on the query path (embedding service unreachable or
\* answering a non-success status, an embedding response without the vector,
\* a database error) comes back as one structured error payload, an embedding
\* failure as the embedding-service error and without a database query; the
\* handler never throws.
C24_FailuresAreStructured ==
    Searched =>
        /\ fnOut.out.kind = "payload"
        /\ fnOut.response # "ok" => fnOut.out.error = ErrOllama /\ ~fnOut.out.queried
        /\ (fnOut.response = "ok" /\ ~fnOut.dbOk) => fnOut.out.error = ErrPgvector

\* the part of C24 that the handler keeps: failures other than a response
\* without the vector
C24_OtherFailuresAreStructured ==
    (Searched /\ fnOut.response # "nofield") =>
        /\ fnOut.out.kind = "payload"
        /\ fnOut.response # "ok" => fnOut.out.error = ErrOllama /\ ~fnOut.out.queried
        /\ (fnOut.response = "ok" /\ ~fnOut.dbOk) => fnOut.out.error = ErrPgvector

\* the response without the vector makes the handler throw
C24_ThrowWitness ==
    Searched /\ fnOut.response = "nofield" /\ fnOut.out.kind = "throw"

(***************************************************************************)
(* C25  Searches beside an indexing run                                    *)
(***************************************************************************)
\* a result row is a row whose insert has completed, with its embedding
C25_Stored(r, rows) ==
    IF r.session_id = <<"s">>
    THEN r.chunk_index \in 1..LegacyRows
    ELSE \E i \in 1..Len(rows) :
            /\ rows[i].session_id = r.session_id
            /\ rows[i].chunk_index = r.chunk_index
            /\ rows[i].summary = r.summary
            /\ rows[i].embedding_vec # NullVector

\* C25: a search_sessions call arriving at any point of an indexing run, or
\* after another search, leaves session_chunks and the run as they are, does
\* not fail when the embedding service and the database answer, and returns
\* only rows whose insert has completed, each with its embedding.
C25_SearchBesideRun ==
    [][(fnPc = "off" /\ fnPc' = "searched") =>
          /\ table' = table /\ tableExists' = tableExists /\ indexExists' = indexExists
          /\ pc' = pc /\ trace' = trace
          /\ (fnOut'.response = "ok" /\ fnOut'.dbOk) =>
                fnOut'.out.kind = "payload" /\ fnOut'.out.error = ""
          /\ \A n \in 1..Len(fnOut'.out.results) :
                C25_Stored(fnOut'.out.results[n], table)]_vars

\* C25 witness: a search between the two inserts of session s1 returned the
\* first chunk's row and not the second
C25_Witness ==
    /\ fnPc = "searched" /\ pc = "chunk" /\ chunkIdx = 2
    /\ fnOut.out.kind = "payload" /\ fnOut.out.error = ""
    /\ \E n \in 1..Len(fnOut.out.results) :
          fnOut.out.results[n].session_id = Id_s1 /\ fnOut.out.results[n].chunk_index = 0
    /\ \A n \in 1..Len(fnOut.out.results) :
          ~(fnOut.out.results[n].session_id = Id_s1 /\ fnOut.out.results[n].chunk_index = 1)

\* C25 witness: a search between the drop and the re-creation of the index
C25_BetweenDropAndCreateWitness ==
    /\ fnPc = "searched" /\ pc = "create" /\ ~indexExists
    /\ fnOut.out.kind = "payload" /\ fnOut.out.error = "" /\ fnOut.out.count = 10

(***************************************************************************)
(* C26  Fenced code blocks are restored                                    *)
(***************************************************************************)
Rendered == fnPc = "rendered"
\* the html of a code block stands in the output
C26_Occurs(block, html) ==
    \E k \in 1..(Len(html) - Len(block) + 1) : SubSeq(html, k, k + Len(block) - 1) = block

C26_Restored ==
    /\ Cardinality({k \in 1..Len(fnOut.html) : fnOut.html[k] = "<pre><code>"})
          = Len(fnOut.codeBlocks)
    /\ \A i \in 1..Len(fnOut.codeBlocks) :
          /\ C26_Occurs(fnOut.codeBlocks[i], fnOut.html)
          /\ \A k \in 1..Len(fnOut.codeBlocks[i]) :
                fnOut.codeBlocks[i][k] \notin {"<", ">", "&", "\""}
    /\ \A k \in 1..Len(fnOut.html) : fnOut.html[k] # Nul

\* C26: for any input, each fenced code block taken out into a placeholder
\* stands in the output as exactly one <pre><code> element with its content
\* escaped, and no placeholder marker is left, wherever the block stands.
C26_CodeBlocksRestored == Rendered => C26_Restored

\* the part of C26 that holds: texts in which no block of lines holds a
\* placeholder below a bullet or below the separator row of a table
C26_RestoredOutsideListsAndTables ==
    (Rendered /\ \A i \in 1..Len(fnIn.lines) :
                    ~IsBullet(fnIn.lines[i]) /\ ~IsSeparatorRow(fnIn.lines[i]))
        => C26_Restored

\* a code block below a bullet is lost
C26_LostWitness ==
    /\ Rendered
    /\ fnIn.lines = <<MdBullet, Backticks, MdText, Backticks>>
    /\ Len(fnOut.codeBlocks) = 1
    /\ \A k \in 1..Len(fnOut.html) : fnOut.html[k] # "<pre><code>"

\* two code blocks between a paragraph and a heading are both restored
C26_SeveralWitness ==
    /\ Rendered
    /\ Len(fnOut.codeBlocks) = 2
    /\ fnIn.lines[Len(fnIn.lines)] = MdHeading
    /\ C26_Restored

(***************************************************************************)
(* POST /api/apply-action (server.ts)                                      *)
(*                                                                         *)
(* ApplySpec hands one request, with the state of the target file before   *)
(* it, to the handler and keeps the response and what the handler did to   *)
(* the file system.                                                        *)
(***************************************************************************)
Slash == <<"/">>
\* os.homedir() and process.cwd()
HomeDir == <<"/", "h">>
Cwd == <<"/", "w">>
DotClaude == <<".", "c", "l", "a", "u", "d", "e">>
HooksDir == <<"/", "h", "o", "o", "k", "s", "/">>

\* path.join(homeDir, ".claude")
ClaudeDir == HomeDir \o Slash \o DotClaude

\* the segments of a path, "." and empty segments dropped
Segments(p) == SelectSeq(SplitOn(p, "/"), LAMBDA s : s # <<>> /\ s # <<".">>)

\* ".." takes the segment before it away
RECURSIVE Normalize(_, _)
Normalize(segs, acc) ==
    IF segs = <<>> THEN acc
    ELSE IF Head(segs) = <<".", ".">>
    THEN Normalize(Tail(segs), IF acc = <<>> THEN acc ELSE SubSeq(acc, 1, Len(acc) - 1))
    ELSE Normalize(Tail(segs), Append(acc, Head(segs)))

\* path.resolve(p): absolute, normalized, without a trailing slash
PathResolve(p) ==
    LET abs == IF StartsWith(p, Slash) THEN p ELSE Cwd \o Slash \o p
        segs == Normalize(Segments(abs), <<>>)
    IN  IF segs = <<>> THEN Slash
        ELSE Flat([i \in 1..Len(segs) |-> Slash \o segs[i]])

\* path.dirname of a resolved path
PathDirname(p) ==
    LET segs == Segments(p)
    IN  IF Len(segs) <= 1 THEN Slash
        ELSE Flat([i \in 1..(Len(segs) - 1) |-> Slash \o segs[i]])

\* String.prototype.includes
Includes(s, pat) ==
    \E i \in 1..(Len(s) - Len(pat) + 1) : SubSeq(s, i, i + Len(pat) - 1) = pat

\* !artifact || !artifact.type || !artifact.content
MissingArtifact(artifact) ==
    ~artifact.present \/ artifact.type = "" \/ artifact.content = <<>>

\* a file-system call of the handler fails: the injected fault, or a write
\* to a path that is a directory
MkdirThrows(fault) == fault = "mkdir"
WriteThrows(resolved, fault) == fault = "write" \/ resolved = ClaudeDir

NoTouch == [mkdir |-> <<>>, written |-> <<>>, chmod |-> FALSE]

ActionResponse(status, action, resolved, touch) ==
    [status |-> status, action |-> action, resolved |-> resolved,
     mkdir |-> touch.mkdir, written |-> touch.written, chmod |-> touch.chmod]

\* existing + separator + artifact.content
Appended(existing, content) ==
    LET old == IF existing.present THEN existing.content ELSE <<>>
        separator == IF old # <<>> /\ ~EndsWith(old, <<"\n">>) THEN <<"\n">> ELSE <<>>
    IN  old \o separator \o content

\* resolvedPath.startsWith(claudeDir)
AllowedPath(resolved) == StartsWith(resolved, ClaudeDir)

\* The handler: the response and the file-system calls that took effect.
ApplyAction(artifact, existing, fault) ==
    IF MissingArtifact(artifact) THEN ActionResponse(400, "", <<>>, NoTouch)
    ELSE LET resolved == PathResolve(artifact.path)
             dir == [NoTouch EXCEPT !.mkdir = <<PathDirname(resolved)>>]
         IN  IF ~AllowedPath(resolved) THEN ActionResponse(403, "", resolved, NoTouch)
             ELSE IF artifact.type \notin {"file", "append"}
             THEN ActionResponse(400, "", resolved, NoTouch)
             ELSE IF MkdirThrows(fault) THEN ActionResponse(500, "", resolved, NoTouch)
             ELSE IF WriteThrows(resolved, fault) THEN ActionResponse(500, "", resolved, dir)
             ELSE IF artifact.type = "file"
             THEN ActionResponse(200, "created", resolved,
                      [dir EXCEPT !.written = <<artifact.content>>,
                                  !.chmod = Includes(resolved, HooksDir)])
             ELSE ActionResponse(200, "appended", resolved,
                      [dir EXCEPT !.written = <<Appended(existing, artifact.content)>>])

\* artifact.path of the requests drawn
PathOf(segs) == Flat([i \in 1..Len(segs) |-> Slash \o segs[i]])
ArtifactPaths ==
    {PathOf(<<<<"h">>, DotClaude, <<"a">>>>),
     PathOf(<<<<"h">>, DotClaude, <<"h", "o", "o", "k", "s">>, <<"a">>>>),
     PathOf(<<<<"h">>, DotClaude, <<".">>, <<"a">>>>),
     ClaudeDir,
     PathOf(<<<<"h">>, DotClaude \o <<"-", "x">>, <<"a">>>>),
     PathOf(<<<<"h">>, DotClaude \o <<"x">>>>),
     PathOf(<<<<"h">>, DotClaude, <<".", ".">>, <<"b">>>>),
     PathOf(<<<<"h">>, <<"b">>>>),
     <<"a">>,
     <<>>}

Artifacts ==
    {[present |-> FALSE, type |-> "", path |-> <<>>, content |-> <<>>]}
    \cup {[present |-> TRUE, type |-> t, path |-> p, content |-> c] :
            t \in {"file", "append", "other", ""}, p \in ArtifactPaths,
            c \in {<<>>, <<"c">>}}

ExistingFiles ==
    {[present |-> FALSE, content |-> <<>>],
     [present |-> TRUE, content |-> <<"x">>],
     [present |-> TRUE, content |-> <<"x", "\n">>]}

ApplyInit ==
    /\ metaFiles = <<OtherFile>>
    /\ tableExists = FALSE
    /\ table = <<>>
    /\ indexExists = FALSE
    /\ run = "none"
    /\ pc = "idle"
    /\ force = FALSE
    /\ maxSessions = MaxSessionsOf(NoLimit)
    /\ jsonFiles = <<>>
    /\ embeddedIds = {}
    /\ fileIdx = 1
    /\ processed = 0 /\ skipped = 0 /\ errors = 0
    /\ meta = NullMeta
    /\ jsonlPath = 0
    /\ chunks = <<>>
    /\ chunkIdx = 1
    /\ exitCode = -1
    /\ rowsAtStart = 0
    /\ trace = <<>>
    /\ prev = NoPrev
    /\ faults = 0
    /\ fnIn \in {[kind |-> "action", artifact |-> a, existing |-> e] :
                    a \in Artifacts, e \in ExistingFiles}
    /\ fnOut = NoOutput
    /\ fnPc = "in"

\* one POST /api/apply-action
HandleApplyAction ==
    /\ fnPc = "in" /\ fnIn.kind = "action"
    /\ \E fault \in {"none", "mkdir", "write"} :
          fnOut' = ApplyAction(fnIn.artifact, fnIn.existing, fault)
    /\ fnPc' = "applied"
    /\ UNCHANGED <<mainVars, fnIn>>

ApplyNext == HandleApplyAction

ApplySpec == ApplyInit /\ [][ApplyNext]_vars

(***************************************************************************)
(* C27  apply-action writes under ~/.claude only                           *)
(***************************************************************************)
Applied == fnPc = "applied"
\* the resolved path is ~/.claude or lies inside it
C27_Inside(resolved) ==
    LET segs == SplitOn(resolved, "/")
        base == SplitOn(ClaudeDir, "/")
    IN  Len(segs) >= Len(base) /\ SubSeq(segs, 1, Len(base)) = base
C27_Touched == fnOut.written # <<>> \/ fnOut.mkdir # <<>> \/ fnOut.chmod

\* C27: the handler creates, overwrites or appends to a file only when the
\* resolved path lies inside ~/.claude; for every other path of a well-formed
\* request, siblings whose name begins with ".claude" included, it answers
\* 403 and touches no file.
C27_WritesOnlyInsideClaudeDir ==
    (Applied /\ ~MissingArtifact(fnIn.artifact)) =>
        /\ C27_Touched => C27_Inside(fnOut.resolved)
        /\ ~C27_Inside(fnOut.resolved) => fnOut.status = 403 /\ ~C27_Touched

\* what the handler does guarantee: nothing is touched unless the text of
\* the resolved path starts with the text of ~/.claude
C27_WritesOnlyBelowPrefix ==
    (Applied /\ ~MissingArtifact(fnIn.artifact)) =>
        /\ C27_Touched => StartsWith(fnOut.resolved, ClaudeDir)
        /\ ~StartsWith(fnOut.resolved, ClaudeDir) => fnOut.status = 403 /\ ~C27_Touched

\* a file is created in the sibling directory ~/.claude-x
C27_SiblingWitness ==
    /\ Applied
    /\ fnOut.resolved = PathOf(<<<<"h">>, DotClaude \o <<"-", "x">>, <<"a">>>>)
    /\ fnOut.status = 200 /\ fnOut.written = <<<<"c">>>>

\* an append inside ~/.claude to a file without a final line break
C27_AppendWitness ==
    /\ Applied /\ fnOut.action = "appended"
    /\ fnOut.resolved = PathOf(<<<<"h">>, DotClaude, <<"a">>>>)
    /\ fnOut.written = <<<<"x", "\n", "c">>>>

(***************************************************************************)
(* C28  Sessions with a record are skipped for good                        *)
(***************************************************************************)
\* the sessions that had at least one row when the current run started
C28_OldSessions == {table[i].session_id : i \in OldRowIdx}

\* C28: a run without --force skips every session that has at least one row,
\* a partial set included, so that it gets no further row; a session without
\* a row (it failed before its first insert, or its log gave no message) is
\* not skipped as indexed: the run examines it again.
C28_IndexedSessionsSkipped ==
    (run # "none" /\ ~force) =>
        LET old == C28_OldSessions
        IN  /\ \A j \in 1..Len(trace) :
                  /\ trace[j].ev \in WorkEvents \cup {"metaError", "sessionError", "skipEmpty"}
                        => trace[j].sid \notin old
                  /\ trace[j].ev = "skip"
                        => trace[j].sid \in old \/ IsAgentSession(trace[j].sid)
            /\ \A k \in RunRowIdx : table[k].session_id \notin old

\* C28 witness: the first run left one of the two chunks of s1, the second
\* run, without --force, skipped s1 and ended
C28_Witness ==
    /\ run = "second" /\ ~force /\ pc = "done"
    /\ HasEvFor("skip", Id_s1)
    /\ Cardinality({i \in 1..Len(table) : table[i].session_id = Id_s1}) = 1

\* C28 witness: s6 failed before its first insert and is examined again
C28_RetryWitness ==
    /\ run = "second" /\ ~force /\ prev.valid /\ prev.errors = 1
    /\ HasEvFor("sessionError", Id_s6)
    /\ \A i \in 1..Len(table) : table[i].session_id # Id_s6

\* C28 witness: s5, whose log gives no message, is parsed again
C28_EmptyAgainWitness ==
    /\ run = "second" /\ ~force /\ prev.valid /\ prev.exit = 0
    /\ HasEvFor("skipEmpty", Id_s5)

(***************************************************************************)
(* C29  The tally counts every file the loop examined                      *)
(***************************************************************************)
\* the files the loop has taken up in this run: each gets one of these
\* events at the loop head
C29_TakenUp ==
    Cardinality({j \in 1..Len(trace) : trace[j].ev \in {"skip", "metaError", "loadMeta"}})

\* the loop is inside the examination of a file
C29_Examining == pc \in {"metaOnly", "jsonl", "chunk"}

\* C29 (as stated): whenever no file is under examination,
\* processed + skipped + errors is the number of files the loop examined,
\* and at Done of a run without a cap it is the number of .json files.
C29_TallyCountsExamined ==
    (run # "none" /\ ~C29_Examining) =>
        /\ processed + skipped + errors = C29_TakenUp
        /\ (pc = "done" /\ maxSessions.inf)
              => processed + skipped + errors = Len(jsonFiles)

\* C29, for the iterations that came to their end: the tally is the number
\* of files the loop has left behind, and at Done of a run without a cap
\* the number of .json files.
C29_TallyOfEndedIterations ==
    run # "none" =>
        /\ processed + skipped + errors = fileIdx - 1
        /\ (pc = "done" /\ maxSessions.inf)
              => processed + skipped + errors = Len(jsonFiles)

\* C29, step by step: a step that leaves a file behind adds one to exactly
\* one of the three counters, any other step adds nothing.
C29_OneCounterPerFile ==
    [][run' = run =>
        LET d == <<processed' - processed, skipped' - skipped, errors' - errors>>
        IN  IF fileIdx' = fileIdx + 1
            THEN d \in {<<1, 0, 0>>, <<0, 1, 0>>, <<0, 0, 1>>}
            ELSE fileIdx' = fileIdx /\ d = <<0, 0, 0>>]_vars

\* C29: a run without a cap reached Done with one file processed and one
\* failed
C29_DoneWitness ==
    /\ pc = "done" /\ maxSessions.inf
    /\ processed = 1 /\ errors = 1 /\ Len(jsonFiles) = 2

\* C29: the run died inside the examination of a file that no counter
\* counts
C29_UncountedWitness ==
    /\ pc = "fatal" /\ HasEvFor("loadMeta", Id_s3)
    /\ processed + skipped + errors = C29_TakenUp - 1

(***************************************************************************)
(* server.ts: POST /api/ask, the agent's messages as an event stream       *)
(*                                                                         *)
(* fnIn is the request, fnOut the response together with the handler's     *)
(* locals (the inactivity timer, the abort signal, the query), fnPc the    *)
(* handler's position: "request", "await" (inside for await), "responded"  *)
(* (400) or "ended".  Time is counted in steps of TickMs since the timer   *)
(* was armed.                                                              *)
(***************************************************************************)
\* setTimeout(..., 60000)
AGENT_TIMEOUT_MS == 60000
\* the step in which time passes while the handler awaits the next message
TickMs == 30000

\* req.body.prompt
Prompts == {"missing", "empty", "nonString", "text"}

\* !( !prompt || typeof prompt !== "string" )
ValidPrompt(prompt) == prompt = "text"

\* the messages the agent's query yields
AssistantBlocks == {"text", "tool_use", "thinking"}

AgentMessage(type, blocks, subtype, hasErrors) ==
    [type |-> type, blocks |-> blocks, subtype |-> subtype, hasErrors |-> hasErrors]

AgentMessages ==
    {AgentMessage("assistant", bs, "", FALSE) :
        bs \in UNION {[1..n -> AssistantBlocks] : n \in 0..2}}
    \cup {AgentMessage("result", <<>>, "success", FALSE),
          AgentMessage("result", <<>>, "error_max_turns", TRUE),
          AgentMessage("result", <<>>, "error_during_execution", FALSE),
          AgentMessage("system", <<>>, "init", FALSE)}

\* what the query, or the iteration over it, throws: the text and the
\* phrases of the catch block it contains
AgentError(text, phrases) == [text |-> text, phrases |-> phrases]

AgentErrors ==
    {AgentError("network error", {"network error"}),
     AgentError("connect ECONNREFUSED, process exited with code 1",
                {"ECONNREFUSED", "exited with code 1"}),
     AgentError("process exited with code 1", {"exited with code 1"}),
     AgentError("aborted", {})}

\* message.errors.join(", ") on a result message without errors
JoinError == AgentError("Cannot read properties of undefined (reading 'join')", {})

MsgUnavailable == "Agent unavailable"
MsgStartFailed == "Agent process failed to start"

\* userMsg of the catch block
UserMsg(err) ==
    IF err.phrases \cap {"network error", "ECONNREFUSED"} # {} THEN MsgUnavailable
    ELSE IF "exited with code 1" \in err.phrases THEN MsgStartFailed
    ELSE err.text

\* one 'data: ...' event of the stream
Event(type, detail) == [type |-> type, detail |-> detail]
DoneEvent == Event("[DONE]", "")

NoResponse ==
    [status |-> 0, stream |-> <<>>, ended |-> FALSE, timer |-> "off", idle |-> 0,
     aborted |-> FALSE, closed |-> FALSE, msgs |-> 0]

\* resetTimeout()
ResetTimeout(r) == [r EXCEPT !.timer = "armed", !.idle = 0]

\* clearTimeout(agentTimeout)
ClearTimeout(r) == [r EXCEPT !.timer = "off", !.idle = 0]

\* if (!res.writableEnded) res.write(...)
Write(r, events) == IF r.ended THEN r ELSE [r EXCEPT !.stream = @ \o events]

\* the events of an assistant message: one per text and per tool_use block
BlockEvents(blocks) ==
    LET kept == SelectSeq(blocks, LAMBDA b : b \in {"text", "tool_use"})
    IN  [i \in 1..Len(kept) |-> Event(kept[i], "")]

\* the body of for await throws on this message
MessageThrows(m) == m.type = "result" /\ m.subtype # "success" /\ ~m.hasErrors

\* the body of for await, after resetTimeout()
HandleMessage(r, m) ==
    IF m.type = "assistant" THEN Write(r, BlockEvents(m.blocks))
    ELSE IF m.type = "result"
    THEN Write(r, <<Event("result", IF m.subtype = "success" THEN "result" ELSE "errors")>>)
    ELSE r

\* catch (err) { ... }
CatchBlock(r, err) ==
    [Write(ClearTimeout(r), <<Event("error", UserMsg(err))>>) EXCEPT !.closed = TRUE]

\* finally { clearTimeout(agentTimeout) }
Finally(r) == ClearTimeout(r)

\* Mutant: the stream is ended without the closing event.
M_FinishStreamWithoutDone(r) == IF r.ended THEN r ELSE [r EXCEPT !.ended = TRUE]

\* if (!res.writableEnded) { res.write("data: [DONE]\n\n"); res.end(); }
FinishStream(r) ==
    IF r.ended THEN r ELSE [r EXCEPT !.stream = Append(@, DoneEvent), !.ended = TRUE]

\* the timer's delay has passed
TimerDue(r) == r.timer = "armed" /\ r.idle >= AGENT_TIMEOUT_MS

AskInit ==
    /\ metaFiles = <<OtherFile>>
    /\ tableExists = FALSE
    /\ table = <<>>
    /\ indexExists = FALSE
    /\ run = "none"
    /\ pc = "idle"
    /\ force = FALSE
    /\ maxSessions = MaxSessionsOf(NoLimit)
    /\ jsonFiles = <<>>
    /\ embeddedIds = {}
    /\ fileIdx = 1
    /\ processed = 0 /\ skipped = 0 /\ errors = 0
    /\ meta = NullMeta
    /\ jsonlPath = 0
    /\ chunks = <<>>
    /\ chunkIdx = 1
    /\ exitCode = -1
    /\ rowsAtStart = 0
    /\ trace = <<>>
    /\ prev = NoPrev
    /\ faults = 0
    /\ fnIn \in {[kind |-> "ask", prompt |-> p] : p \in Prompts}
    /\ fnOut = NoResponse
    /\ fnPc = "request"

\* From the request to the first await of the iteration: the 400 answer, or
\* the headers, the timer and query(); a query() that throws runs the catch
\* block and the rest of the handler at once.
AskStart ==
    /\ fnPc = "request"
    /\ IF ~ValidPrompt(fnIn.prompt)
       THEN /\ fnOut' = [fnOut EXCEPT !.status = 400, !.ended = TRUE]
            /\ fnPc' = "responded"
       ELSE \E started \in BOOLEAN, err \in AgentErrors :
               LET r == ResetTimeout([fnOut EXCEPT !.status = 200]) IN
               /\ started => err = AgentError("aborted", {})
               /\ fnOut' = IF started THEN r
                           ELSE FinishStream(Finally(CatchBlock(r, err)))
               /\ fnPc' = IF started THEN "await" ELSE "ended"
    /\ UNCHANGED <<mainVars, fnIn>>

\* Time passes while the handler awaits the next message.
Tick ==
    /\ fnPc = "await" /\ fnOut.timer = "armed" /\ ~TimerDue(fnOut)
    /\ fnOut' = [fnOut EXCEPT !.idle = @ + TickMs]
    /\ UNCHANGED <<mainVars, fnIn, fnPc>>

\* The timer's callback: abortController.abort().
TimerFires ==
    /\ fnPc = "await" /\ TimerDue(fnOut)
    /\ fnOut' = [fnOut EXCEPT !.aborted = TRUE, !.timer = "off", !.idle = 0]
    /\ UNCHANGED <<mainVars, fnIn, fnPc>>

\* The query yields a message: one pass through the body of for await.
AgentYields ==
    /\ fnPc = "await" /\ ~TimerDue(fnOut) /\ fnOut.msgs < MaxAgentMsgs
    /\ \E m \in AgentMessages :
          LET r == ResetTimeout([fnOut EXCEPT !.msgs = @ + 1]) IN
          /\ fnOut' = IF MessageThrows(m)
                      THEN FinishStream(Finally(CatchBlock(r, JoinError)))
                      ELSE HandleMessage(r, m)
          /\ fnPc' = IF MessageThrows(m) THEN "ended" ELSE "await"
    /\ UNCHANGED <<mainVars, fnIn>>

\* The iteration ends: finally, then the closing event.
AgentReturns ==
    /\ fnPc = "await" /\ ~TimerDue(fnOut)
    /\ fnOut' = FinishStream(Finally(fnOut))
    /\ fnPc' = "ended"
    /\ UNCHANGED <<mainVars, fnIn>>

\* The iteration throws: catch, finally, then the closing event.
AgentThrows ==
    /\ fnPc = "await" /\ ~TimerDue(fnOut)
    /\ \E err \in AgentErrors :
          fnOut' = FinishStream(Finally(CatchBlock(fnOut, err)))
    /\ fnPc' = "ended"
    /\ UNCHANGED <<mainVars, fnIn>>

AskNext ==
    \/ AskStart
    \/ Tick
    \/ TimerFires
    \/ AgentYields
    \/ AgentReturns
    \/ AgentThrows

AskSpec == AskInit /\ [][AskNext]_vars

\* The handler runs, time passes, a due timer fires, and a query whose
\* abort signal was raised ends its iteration (the signal is handed to
\* query() in its options).
AskLiveSpec ==
    /\ AskSpec
    /\ WF_vars(AskStart)
    /\ WF_vars(Tick)
    /\ WF_vars(TimerFires)
    /\ WF_vars(fnOut.aborted /\ (AgentReturns \/ AgentThrows))

(***************************************************************************)
(* C30  The event stream of /api/ask ends with one [DONE]                  *)
(***************************************************************************)
C30_Valid == fnIn.kind = "ask" /\ ValidPrompt(fnIn.prompt)
C30_DoneCount ==
    Cardinality({i \in 1..Len(fnOut.stream) : fnOut.stream[i] = DoneEvent})
C30_Closed ==
    /\ fnPc = "ended" /\ fnOut.ended /\ fnOut.timer = "off"
    /\ C30_DoneCount = 1 /\ fnOut.stream[Len(fnOut.stream)] = DoneEvent

\* C30, the states: the stream never holds more than one [DONE], a [DONE]
\* is its last event and comes with the end of the response, the handler
\* ends with the stream closed and the timer cleared, and the timer is armed
\* only while the handler awaits the agent, never past its delay.
C30_StreamShape ==
    C30_Valid =>
        /\ C30_DoneCount <= 1
        /\ C30_DoneCount = 1 <=> fnOut.ended
        /\ fnPc = "ended" <=> fnOut.ended
        /\ fnOut.ended => C30_Closed
        /\ fnOut.timer = "armed" => fnPc = "await" /\ fnOut.idle <= AGENT_TIMEOUT_MS

\* C30, the steps: nothing is written once the response has ended, a
\* message re-arms the timer, and the abort signal is raised only when the
\* delay has passed without a message.
C30_Steps ==
    C30_Valid =>
        /\ fnOut.ended => fnOut'.stream = fnOut.stream
        /\ (fnOut'.msgs = fnOut.msgs + 1 /\ fnPc' = "await")
              => fnOut'.timer = "armed" /\ fnOut'.idle = 0
        /\ (fnOut'.aborted /\ ~fnOut.aborted)
              => fnOut.timer = "armed" /\ fnOut.idle = AGENT_TIMEOUT_MS

\* C30: for every POST /api/ask with a valid prompt the stream ends with
\* exactly one [DONE] event, after every text, tool_use, result and error
\* event, whether the agent finishes, throws or is aborted after 60 seconds
\* without a message; the timer is re-armed on each message and cleared on
\* completion, and nothing is written after the response has ended.
C30_StreamEndsWithDone ==
    /\ []C30_StreamShape
    /\ [][C30_Steps]_vars
    /\ (C30_Valid /\ fnPc = "request") ~> C30_Closed

\* C30 witness: the agent sent a message and then fell silent, the timer
\* aborted it, the iteration threw and the stream was closed after the
\* error event
C30_Witness ==
    /\ C30_Valid /\ C30_Closed /\ fnOut.aborted /\ fnOut.msgs > 0
    /\ Len(fnOut.stream) >= 3
    /\ fnOut.stream[Len(fnOut.stream) - 1].type = "error"

\* C30 witness: the agent finished after a text, a tool_use and a result
C30_FinishedWitness ==
    /\ C30_Valid /\ C30_Closed /\ ~fnOut.aborted
    /\ [i \in 1..Len(fnOut.stream) |-> fnOut.stream[i].type]
          = <<"text", "tool_use", "result", "[DONE]">>

==============================================================================
